---- MODULE Spec2Model ----
(***************************************************************************)
(* CaspyORM: schema synchronisation (caspyorm/_internal/schema_sync.py),   *)
(* CQL statement building (caspyorm/_internal/query_builder.py), field     *)
(* types and model construction (caspyorm/fields.py, caspyorm/model.py)    *)
(* and the connection manager (caspyorm/connection.py).                    *)
(*                                                                         *)
(* Text is modelled as a sequence of tokens: "list<text>" is               *)
(* <<"list", "<", "text", ">">>, a filter key "age__gt" is                 *)
(* <<"age", "__", "gt">>, a statement is the sequence of its words,        *)
(* punctuation and '?' placeholders.                                       *)
(***************************************************************************)
EXTENDS Integers, Sequences, FiniteSets, TLC

VARIABLES
    model_schema,   \* model_cls.__caspy_schema__ of the model being synchronised
    db,             \* the table in the database: the rows of system_schema.columns
    calls,          \* one record per finished sync_table invocation
    request,        \* the arguments of the last query_builder call
    result,         \* what that call returned or raised
    procs,          \* the sync_table invocations running side by side
    connection      \* the attributes of the ConnectionManager instance

syncVars == <<model_schema, db, calls, procs, connection>>
qbVars == <<request, result>>
vars == <<model_schema, db, calls, request, result, procs, connection>>

-----------------------------------------------------------------------------
(* Bounds *)

MaxCalls == 2       \* sync_table invocations in one behaviour
MaxEntries == 2     \* entries of a filter or update mapping
MaxConnects == 3    \* connect calls in one behaviour

-----------------------------------------------------------------------------
(* Sequences *)

Range(s) == {s[i] : i \in DOMAIN s}

Last(s) == s[Len(s)]

\* sep.join(parts), every part being a token sequence
RECURSIVE Join(_, _)
Join(parts, sep) ==
    IF parts = <<>> THEN <<>>
    ELSE IF Len(parts) = 1 THEN parts[1]
    ELSE parts[1] \o sep \o Join(Tail(parts), sep)

\* text.split(sep)[0]: the tokens before the first occurrence of sep
RECURSIVE SplitHead(_, _)
SplitHead(text, sep) ==
    IF text = <<>> \/ Head(text) = sep THEN <<>>
    ELSE <<Head(text)>> \o SplitHead(Tail(text), sep)

\* text.split(sep): the runs of tokens between the occurrences of sep
RECURSIVE Split(_, _)
Split(text, sep) ==
    IF sep \notin Range(text) THEN <<text>>
    ELSE LET i == CHOOSE k \in DOMAIN text :
                      text[k] = sep /\ \A j \in 1..(k - 1) : text[j] # sep
         IN  <<SubSeq(text, 1, i - 1)>> \o Split(SubSeq(text, i + 1, Len(text)), sep)

\* [name] as a list of one-token sequences, for Join
Words(names) == [i \in DOMAIN names |-> <<names[i]>>]

\* the permutations of 1..n, as index sequences
Perms(n) == {p \in [1..n -> 1..n] : \A i, j \in 1..n : i # j => p[i] # p[j]}

-----------------------------------------------------------------------------
(* Declared schemas: what the model metaclass hands to sync_table *)

TABLE == "produtos_sync"

TText == <<"text">>
TUuid == <<"uuid">>
TInt == <<"int">>
TFloat == <<"float">>
TBoolean == <<"boolean">>
TListText == <<"list", "<", "text", ">">>
TSetText == <<"set", "<", "text", ">">>

Field(name, type, index) == [name |-> name, type |-> type, index |-> index]

\* __caspy_schema__ (all models share the table, as in test_05_schema_sync):
\* primary_keys is partition_keys followed by clustering_keys
Schema(fields, partition_keys, clustering_keys) ==
    [table_name |-> TABLE,
     fields |-> fields,
     partition_keys |-> partition_keys,
     clustering_keys |-> clustering_keys,
     primary_keys |-> partition_keys \o clustering_keys]

\* tests/unit/test_05_schema_sync.py
ProdutoOriginal ==
    Schema(<<Field("id", TUuid, FALSE), Field("nome", TText, FALSE)>>, <<"id">>, <<>>)

ProdutoAtualizado ==
    Schema(<<Field("id", TUuid, FALSE), Field("nome", TText, FALSE),
             Field("preco", TFloat, FALSE)>>, <<"id">>, <<>>)

ProdutoComExtra ==
    Schema(<<Field("id", TUuid, FALSE), Field("nome", TText, FALSE),
             Field("extra", TText, FALSE)>>, <<"id">>, <<>>)

ProdutoComInt ==
    Schema(<<Field("id", TUuid, FALSE), Field("quantidade", TInt, FALSE)>>, <<"id">>, <<>>)

ProdutoComText ==
    Schema(<<Field("id", TUuid, FALSE), Field("quantidade", TText, FALSE)>>, <<"id">>, <<>>)

\* tests/test_11_nivel3_improvements.py
ProdutoComIndice ==
    Schema(<<Field("id", TUuid, FALSE), Field("nome", TText, FALSE),
             Field("categoria", TText, TRUE), Field("preco", TFloat, TRUE),
             Field("ativo", TBoolean, FALSE)>>, <<"id">>, <<>>)

Post ==
    Schema(<<Field("id", TUuid, FALSE), Field("tags", TListText, FALSE),
             Field("colaboradores", TSetText, FALSE)>>, <<"id">>, <<>>)

\* tests/test_errors.py
Tarefa ==
    Schema(<<Field("projeto", TText, FALSE), Field("id", TUuid, FALSE),
             Field("descricao", TText, FALSE), Field("status", TText, FALSE)>>,
           <<"projeto">>, <<"id">>)

\* tests/unit/test_07_exceptions.py: primary_key and partition_key together
Evento ==
    Schema(<<Field("id", TUuid, FALSE), Field("data", TText, FALSE),
             Field("descricao", TText, FALSE)>>, <<"id", "data">>, <<>>)

DeclaredSchemas ==
    {ProdutoOriginal, ProdutoAtualizado, ProdutoComExtra, ProdutoComInt, ProdutoComText,
     ProdutoComIndice, Post, Tarefa, Evento}

FieldNames(schema) == [i \in DOMAIN schema.fields |-> schema.fields[i].name]

\* schema['fields'][name]
FieldOf(schema, name) ==
    schema.fields[CHOOSE i \in DOMAIN schema.fields : schema.fields[i].name = name]

-----------------------------------------------------------------------------
(* Statements sent to session.execute *)

NoTokens == <<>>

CreateTableStmt(table_name, coldefs, pk_def) ==
    [op |-> "CREATE TABLE IF NOT EXISTS", table |-> table_name, column |-> "",
     type |-> NoTokens, coldefs |-> coldefs, pk_def |-> pk_def]

AlterAddStmt(table_name, column, type) ==
    [op |-> "ALTER TABLE ADD", table |-> table_name, column |-> column,
     type |-> type, coldefs |-> <<>>, pk_def |-> NoTokens]

\* the RuntimeError of build_create_table_cql, in the place of a statement
RaiseStmt ==
    [op |-> "raise", table |-> "", column |-> "", type |-> NoTokens,
     coldefs |-> <<>>, pk_def |-> NoTokens]

\* schema_sync.build_create_table_cql; RaiseStmt when there is no partition key
build_create_table_cql(table_name, schema) ==
    LET coldefs == [i \in DOMAIN schema.fields |->
                        [name |-> schema.fields[i].name, type |-> schema.fields[i].type]]
        pks == Join(Words(schema.partition_keys), <<",">>)
        cks == Join(Words(schema.clustering_keys), <<",">>)
    IN  IF schema.partition_keys # <<>> /\ schema.clustering_keys # <<>>
        THEN CreateTableStmt(table_name, coldefs,
                 <<"PRIMARY", "KEY", "(", "(">> \o pks \o <<")">>
                     \o <<",">> \o cks \o <<")">>)
        ELSE IF schema.partition_keys # <<>>
        THEN CreateTableStmt(table_name, coldefs,
                 <<"PRIMARY", "KEY", "(">> \o pks \o <<")">>)
        ELSE RaiseStmt

-----------------------------------------------------------------------------
(* The database behind the session: the catalog rows of the one table *)

NoTable == [exists |-> FALSE, rows |-> <<>>]

Row(column_name, type, kind, position) ==
    [column_name |-> column_name, type |-> type, kind |-> kind, position |-> position]

IsName(tok) == tok \notin {"PRIMARY", "KEY", "(", ")", ","}

KeyNames(toks) == SelectSeq(toks, IsName)

FirstIndex(toks, tok) ==
    CHOOSE i \in DOMAIN toks : toks[i] = tok /\ \A j \in 1..(i - 1) : toks[j] # tok

IndexIn(names, name) == CHOOSE i \in DOMAIN names : names[i] = name

\* How the database reads PRIMARY KEY (...): an inner parenthesis groups the
\* partition key, otherwise the first name alone is the partition key
ParsePrimaryKey(pk_def) ==
    IF pk_def[4] = "("
    THEN LET close == FirstIndex(pk_def, ")")
         IN  [partition |-> KeyNames(SubSeq(pk_def, 5, close - 1)),
              clustering |-> KeyNames(SubSeq(pk_def, close + 1, Len(pk_def)))]
    ELSE LET names == KeyNames(pk_def)
         IN  [partition |-> <<Head(names)>>, clustering |-> Tail(names)]

\* CREATE TABLE IF NOT EXISTS: nothing happens to an existing table
ExecCreateTable(d, stmt) ==
    IF d.exists THEN d
    ELSE LET pk == ParsePrimaryKey(stmt.pk_def)
             row(c) ==
                 IF c.name \in Range(pk.partition)
                 THEN Row(c.name, c.type, "partition_key", IndexIn(pk.partition, c.name) - 1)
                 ELSE IF c.name \in Range(pk.clustering)
                 THEN Row(c.name, c.type, "clustering", IndexIn(pk.clustering, c.name) - 1)
                 ELSE Row(c.name, c.type, "regular", -1)
         IN  [exists |-> TRUE, rows |-> [i \in DOMAIN stmt.coldefs |-> row(stmt.coldefs[i])]]

ColumnNames(d) == {d.rows[i].column_name : i \in DOMAIN d.rows}

\* ALTER TABLE ADD is refused for a missing table or an existing column
AddColumnAccepted(d, stmt) == d.exists /\ stmt.column \notin ColumnNames(d)

ExecAddColumn(d, stmt) ==
    [d EXCEPT !.rows = Append(@, Row(stmt.column, stmt.type, "regular", -1))]

\* SELECT ... FROM system_schema.columns ... ORDER BY position: the regular
\* columns (position -1) as the catalog holds them, then the key columns by
\* non-decreasing position, those of equal position in either order
ResultOrders(d) ==
    LET regular == SelectSeq(d.rows, LAMBDA r : r.kind = "regular")
        keys == SelectSeq(d.rows, LAMBDA r : r.kind # "regular")
        sorted == {q \in Perms(Len(keys)) :
                      \A i, j \in DOMAIN keys :
                          i < j => keys[q[i]].position <= keys[q[j]].position}
    IN  {regular \o [i \in DOMAIN keys |-> keys[q[i]]] : q \in sorted}

-----------------------------------------------------------------------------
(* get_cassandra_table_schema *)

\* str.lower() on the tokens a catalog type can start with
Lower(tok) ==
    CASE tok = "TEXT" -> "text"
      [] tok = "INT" -> "int"
      [] tok = "UUID" -> "uuid"
      [] OTHER -> tok

\* type_mapping.get(base_type, base_type)
type_mapping(base_type) ==
    CASE base_type \in {"varchar", "ascii", "json"} -> "text"
      [] base_type \in {"bigint", "varint", "smallint", "tinyint"} -> "int"
      [] base_type = "double" -> "float"
      [] base_type = "timeuuid" -> "uuid"
      [] OTHER -> base_type

\* column_type.split('<')[0].split('(')[0].lower()
BaseType(column_type) ==
    LET head == SplitHead(SplitHead(column_type, "<"), "(")
    IN  IF head = <<>> THEN "" ELSE Lower(head[1])

NoneSchema ==
    [found |-> FALSE, fields |-> <<>>, primary_keys |-> <<>>,
     partition_keys |-> <<>>, clustering_keys |-> <<>>]

RowNames(rows) == [i \in DOMAIN rows |-> rows[i].column_name]

\* the schema built from the result rows, None for an empty result
get_cassandra_table_schema(rows) ==
    IF rows = <<>> THEN NoneSchema
    ELSE [found |-> TRUE,
          fields |-> [i \in DOMAIN rows |->
                        [name |-> rows[i].column_name,
                         type |-> <<type_mapping(BaseType(rows[i].type))>>,
                         cql_type |-> rows[i].type,
                         kind |-> rows[i].kind]],
          primary_keys |->
              RowNames(SelectSeq(rows,
                  LAMBDA r : r.kind \in {"partition_key", "clustering"})),
          partition_keys |->
              RowNames(SelectSeq(rows, LAMBDA r : r.kind = "partition_key")),
          clustering_keys |->
              RowNames(SelectSeq(rows, LAMBDA r : r.kind = "clustering"))]

-----------------------------------------------------------------------------
(* apply_schema_changes *)

Log(level, event, subject) == [level |-> level, event |-> event, subject |-> subject]

Attempt(stmt, ok) == [stmt |-> stmt, ok |-> ok]

\* AddColumns giving up at the first rejected ALTER
RECURSIVE AddColumnsAbort(_, _, _, _, _, _)
AddColumnsAbort(table_name, fields, db_schema, add_fails, d, acc) ==
    IF fields = <<>> THEN [stmts |-> acc.stmts, logs |-> acc.logs, db |-> d]
    ELSE LET f == Head(fields)
             cql == AlterAddStmt(table_name, f.name, f.type)
             ok == f.name \notin add_fails /\ AddColumnAccepted(d, cql)
         IN  IF f.name \in Range(FieldNames(db_schema))
             THEN AddColumnsAbort(table_name, Tail(fields), db_schema, add_fails, d, acc)
             ELSE IF ok
             THEN AddColumnsAbort(table_name, Tail(fields), db_schema, add_fails,
                      ExecAddColumn(d, cql),
                      [stmts |-> Append(acc.stmts, Attempt(cql, TRUE)),
                       logs |-> Append(acc.logs, Log("info", "executing", f.name))])
             ELSE [stmts |-> Append(acc.stmts, Attempt(cql, FALSE)),
                   logs |-> Append(acc.logs, Log("error", "add_failed", f.name)),
                   db |-> d]

\* AddColumns without the test against the introspected schema
RECURSIVE AddColumnsAll(_, _, _, _, _, _)
AddColumnsAll(table_name, fields, db_schema, add_fails, d, acc) ==
    IF fields = <<>> THEN [stmts |-> acc.stmts, logs |-> acc.logs, db |-> d]
    ELSE LET f == Head(fields)
             cql == AlterAddStmt(table_name, f.name, f.type)
             ok == f.name \notin add_fails /\ AddColumnAccepted(d, cql)
         IN  IF ok
             THEN AddColumnsAll(table_name, Tail(fields), db_schema, add_fails,
                      ExecAddColumn(d, cql),
                      [stmts |-> Append(acc.stmts, Attempt(cql, TRUE)),
                       logs |-> Append(acc.logs, Log("info", "executing", f.name))])
             ELSE AddColumnsAll(table_name, Tail(fields), db_schema, add_fails, d,
                      [stmts |-> Append(acc.stmts, Attempt(cql, FALSE)),
                       logs |-> Append(acc.logs, Log("error", "add_failed", f.name))])

\* the loop over model_schema['fields'] that adds the columns the introspected
\* schema lacks; add_fails are the columns whose ALTER the executor rejects
RECURSIVE AddColumns(_, _, _, _, _, _)
AddColumns(table_name, fields, db_schema, add_fails, d, acc) ==
    IF fields = <<>> THEN [stmts |-> acc.stmts, logs |-> acc.logs, db |-> d]
    ELSE LET f == Head(fields)
             cql == AlterAddStmt(table_name, f.name, f.type)
             ok == f.name \notin add_fails /\ AddColumnAccepted(d, cql)
         IN  IF f.name \in Range(FieldNames(db_schema))
             THEN AddColumns(table_name, Tail(fields), db_schema, add_fails, d, acc)
             ELSE IF ok
             THEN AddColumns(table_name, Tail(fields), db_schema, add_fails,
                      ExecAddColumn(d, cql),
                      [stmts |-> Append(acc.stmts, Attempt(cql, TRUE)),
                       logs |-> Append(acc.logs, Log("info", "executing", f.name))])
             ELSE AddColumns(table_name, Tail(fields), db_schema, add_fails, d,
                      [stmts |-> Append(acc.stmts, Attempt(cql, FALSE)),
                       logs |-> Append(acc.logs, Log("error", "add_failed", f.name))])

\* the warnings for the columns of the table that the model does not declare
RemovalWarnings(model, db_schema) ==
    LET extra == SelectSeq(FieldNames(db_schema),
                     LAMBDA n : n \notin Range(FieldNames(model)))
    IN  [i \in DOMAIN extra |-> Log("warning", "manual_drop_needed", extra[i])]

\* the warnings for the common columns whose type strings differ
TypeWarnings(model, db_schema) ==
    LET changed == SelectSeq(FieldNames(model),
                       LAMBDA n : /\ n \in Range(FieldNames(db_schema))
                                  /\ FieldOf(model, n).type # FieldOf(db_schema, n).type)
    IN  [i \in DOMAIN changed |-> Log("warning", "manual_type_change_needed", changed[i])]

apply_schema_changes(table_name, model, db_schema, add_fails, d) ==
    LET added == AddColumns(table_name, model.fields, db_schema, add_fails, d,
                            [stmts |-> <<>>, logs |-> <<>>])
        pk == IF model.primary_keys # db_schema.primary_keys
              THEN <<Log("error", "primary_key_changed", "")>> ELSE <<>>
    IN  [stmts |-> added.stmts,
         logs |-> added.logs \o RemovalWarnings(model, db_schema)
                     \o TypeWarnings(model, db_schema) \o pk,
         db |-> added.db]

-----------------------------------------------------------------------------
(* sync_table *)

\* the comparison of the declared schema with the introspected one
SchemaDiff(model, db_schema) ==
    LET model_fields == Range(FieldNames(model))
        db_fields == Range(FieldNames(db_schema))
    IN  [fields_to_add |-> model_fields \ db_fields,
         fields_to_remove |-> db_fields \ model_fields,
         type_mismatches |->
             {f \in model_fields \cap db_fields :
                 FieldOf(model, f).type # FieldOf(db_schema, f).type},
         pk_mismatch |-> model.primary_keys # db_schema.primary_keys]

NoDiff ==
    [fields_to_add |-> {}, fields_to_remove |-> {}, type_mismatches |-> {},
     pk_mismatch |-> FALSE]

has_changes(diff) ==
    \/ diff.fields_to_add # {}
    \/ diff.fields_to_remove # {}
    \/ diff.type_mismatches # {}
    \/ diff.pk_mismatch

\* what sync_table prints about a diff when verbose
VerboseReport(diff) ==
    (IF diff.fields_to_add # {} THEN <<Log("info", "fields_to_add", "")>> ELSE <<>>)
    \o (IF diff.fields_to_remove # {} THEN <<Log("info", "fields_to_remove", "")>> ELSE <<>>)
    \o (IF diff.type_mismatches # {} THEN <<Log("info", "type_mismatches", "")>> ELSE <<>>)
    \o (IF diff.pk_mismatch THEN <<Log("error", "pk_mismatch", "")>> ELSE <<>>)

Outcome(introspection, diff, stmts, logs, raised, d) ==
    [introspection |-> introspection, diff |-> diff, stmts |-> stmts, logs |-> logs,
     raised |-> raised, db |-> d]

\* The table is missing (or its introspection failed): build and run CREATE TABLE
CreateBranch(model, d, verbose, introspection, logs, create_fails) ==
    LET create_table_query == build_create_table_cql(model.table_name, model)
        announced == logs \o <<Log("info", "creating", "")>>
                          \o (IF verbose THEN <<Log("info", "create_cql", "")>> ELSE <<>>)
    IN  IF create_table_query.op = "raise"
        THEN Outcome(introspection, NoDiff, <<>>, logs \o <<Log("info", "creating", "")>>,
                     TRUE, d)
        ELSE IF create_fails
        THEN Outcome(introspection, NoDiff, <<Attempt(create_table_query, FALSE)>>,
                     announced \o <<Log("error", "create_failed", "")>>, TRUE, d)
        ELSE Outcome(introspection, NoDiff, <<Attempt(create_table_query, TRUE)>>,
                     announced \o <<Log("info", "created", "")>>, FALSE,
                     ExecCreateTable(d, create_table_query))

\* The table was found: compare, report and, under auto_apply, apply
CompareBranch(model, d, db_schema, auto_apply, verbose, add_fails) ==
    LET diff == SchemaDiff(model, db_schema)
        report == <<Log("warning", "out_of_sync", "")>>
                      \o (IF verbose THEN VerboseReport(diff) ELSE <<>>)
        applied == apply_schema_changes(model.table_name, model, db_schema, add_fails, d)
    IN  IF ~has_changes(diff)
        THEN Outcome("found", diff, <<>>, <<Log("info", "in_sync", "")>>, FALSE, d)
        ELSE IF auto_apply
        THEN Outcome("found", diff, applied.stmts, report \o applied.logs, FALSE, applied.db)
        ELSE Outcome("found", diff, <<>>,
                     report \o <<Log("info", "rerun_with_auto_apply", "")>>, FALSE, d)

\* sync_table(model_cls, auto_apply, verbose) against the database d.
\* session_ok: get_session() returns a session; introspect_ok: prepare and
\* execute of the catalog query do not raise; rows: the result rows it yields;
\* create_fails, add_fails: the statements the executor rejects.
sync_table(model, d, auto_apply, verbose, session_ok, introspect_ok, rows, create_fails, add_fails) ==
    LET db_schema == IF introspect_ok THEN get_cassandra_table_schema(rows)
                     ELSE NoneSchema
    IN  IF ~session_ok
        THEN Outcome("no_session", NoDiff, <<>>, <<>>, TRUE, d)
        ELSE IF ~introspect_ok
        THEN CreateBranch(model, d, verbose, "error",
                          <<Log("error", "introspection_failed", "")>>, create_fails)
        ELSE IF ~db_schema.found
        THEN CreateBranch(model, d, verbose, "none", <<>>, create_fails)
        ELSE CompareBranch(model, d, db_schema, auto_apply, verbose, add_fails)

-----------------------------------------------------------------------------
(* sync_table, one call to the executor at a time *)

\* the sync_table invocations that run side by side
Invocations == {1, 2}

\* an invocation between two calls to the executor: where it stands, the
\* schema it introspected, the fields it has still to add, what it logged
Proc(pc, db_schema, todo, logs, raised) ==
    [pc |-> pc, db_schema |-> db_schema, todo |-> todo, logs |-> logs, raised |-> raised]

NewProc == Proc("introspect", NoneSchema, <<>>, <<>>, FALSE)

NotRunning == [p \in Invocations |-> Proc("done", NoneSchema, <<>>, <<>>, FALSE)]

\* the end of apply_schema_changes: the warnings after the loop of ALTERs
finish_apply(model, proc) ==
    LET pk == IF model.primary_keys # proc.db_schema.primary_keys
              THEN <<Log("error", "primary_key_changed", "")>> ELSE <<>>
    IN  Proc("done", proc.db_schema, <<>>,
             proc.logs \o RemovalWarnings(model, proc.db_schema)
                 \o TypeWarnings(model, proc.db_schema) \o pk,
             FALSE)

\* sync_table(auto_apply=True) from its start to its first statement: the
\* catalog query answered with rows, the comparison and the report
introspect_step(model, rows, verbose) ==
    LET db_schema == get_cassandra_table_schema(rows)
        diff == SchemaDiff(model, db_schema)
        report == <<Log("warning", "out_of_sync", "")>>
                      \o (IF verbose THEN VerboseReport(diff) ELSE <<>>)
        todo == SelectSeq(model.fields,
                    LAMBDA f : f.name \notin Range(FieldNames(db_schema)))
        applying == Proc("alter", db_schema, todo, report, FALSE)
    IN  IF ~db_schema.found
        THEN IF build_create_table_cql(model.table_name, model).op = "raise"
             THEN Proc("done", db_schema, <<>>, <<Log("info", "creating", "")>>, TRUE)
             ELSE Proc("create", db_schema, <<>>,
                       <<Log("info", "creating", "")>>
                           \o (IF verbose THEN <<Log("info", "create_cql", "")>> ELSE <<>>),
                       FALSE)
        ELSE IF ~has_changes(diff)
        THEN Proc("done", db_schema, <<>>, <<Log("info", "in_sync", "")>>, FALSE)
        ELSE IF todo = <<>> THEN finish_apply(model, applying)
        ELSE applying

\* session.execute(create_table_query) and the return of sync_table
create_step(model, proc, d) ==
    LET create_table_query == build_create_table_cql(model.table_name, model)
    IN  [proc |-> Proc("done", proc.db_schema, <<>>,
                       proc.logs \o <<Log("info", "created", "")>>, FALSE),
         db |-> ExecCreateTable(d, create_table_query)]

\* one ALTER of apply_schema_changes whose rejection ends the invocation
alter_step_raises(model, proc, d) ==
    LET f == Head(proc.todo)
        cql == AlterAddStmt(model.table_name, f.name, f.type)
    IN  IF AddColumnAccepted(d, cql)
        THEN LET next == Proc("alter", proc.db_schema, Tail(proc.todo),
                              Append(proc.logs, Log("info", "executing", f.name)), FALSE)
             IN  [proc |-> IF Tail(proc.todo) = <<>> THEN finish_apply(model, next) ELSE next,
                  db |-> ExecAddColumn(d, cql)]
        ELSE [proc |-> Proc("done", proc.db_schema, <<>>, proc.logs, TRUE), db |-> d]

\* one turn of the loop of apply_schema_changes that executes an ALTER: the
\* column is added, or the executor's refusal is logged; after the last one
\* come the warnings and the return
alter_step(model, proc, d) ==
    LET f == Head(proc.todo)
        cql == AlterAddStmt(model.table_name, f.name, f.type)
        ok == AddColumnAccepted(d, cql)
        next == Proc("alter", proc.db_schema, Tail(proc.todo),
                     Append(proc.logs,
                            IF ok THEN Log("info", "executing", f.name)
                            ELSE Log("error", "add_failed", f.name)),
                     FALSE)
    IN  [proc |-> IF Tail(proc.todo) = <<>> THEN finish_apply(model, next) ELSE next,
         db |-> IF ok THEN ExecAddColumn(d, cql) ELSE d]

-----------------------------------------------------------------------------
(* connection.py: ConnectionManager *)

\* None in the place of a cluster or session object, and of a keyspace name
NoObject == 0
NoKeyspace == "None"

\* the attributes of the instance; a cluster object is known by its number in
\* the order of creation, a session object by the number of its cluster;
\* created counts the Cluster objects made so far
Manager(cluster, session, keyspace, is_connected, created) ==
    [cluster |-> cluster, session |-> session, keyspace |-> keyspace,
     _is_connected |-> is_connected, created |-> created]

\* ConnectionManager.__init__
ConnectionManager_init == Manager(NoObject, NoObject, NoKeyspace, FALSE, 0)

\* the steps of connect that can raise
ConnectSteps == {"cluster", "session", "create_keyspace", "set_keyspace"}

\* what a method leaves: the instance, and the value returned or the exception
Left(manager, raised, error, value) ==
    [manager |-> manager, raised |-> raised, error |-> error, value |-> value]

\* ConnectionManager.use_keyspace; fails_at names the step that raises, if any
use_keyspace(manager, keyspace, fails_at) ==
    IF manager.session = NoObject THEN Left(manager, TRUE, "RuntimeError", NoObject)
    ELSE IF fails_at \in {"create_keyspace", "set_keyspace"}
    THEN Left(manager, TRUE, "Exception", NoObject)
    ELSE Left([manager EXCEPT !.keyspace = keyspace], FALSE, "", NoObject)

\* connect marking the instance connected before the session is made
connect_flag_first(manager, keyspace, fails_at) ==
    LET made == manager.created + 1
        with_cluster == [manager EXCEPT !.cluster = made, !.created = made,
                                        !._is_connected = TRUE]
        with_session == [with_cluster EXCEPT !.session = made]
    IN  IF fails_at = "cluster" THEN Left(manager, TRUE, "Exception", NoObject)
        ELSE IF fails_at = "session" THEN Left(with_cluster, TRUE, "Exception", NoObject)
        ELSE IF keyspace # NoKeyspace THEN use_keyspace(with_session, keyspace, fails_at)
        ELSE Left(with_session, FALSE, "", NoObject)

\* ConnectionManager.connect; keyspace is NoKeyspace when none is asked for,
\* fails_at names the step that raises, if any
connect(manager, keyspace, fails_at) ==
    LET made == manager.created + 1
        with_cluster == [manager EXCEPT !.cluster = made, !.created = made]
        with_session == [with_cluster EXCEPT !.session = made, !._is_connected = TRUE]
    IN  IF fails_at = "cluster" THEN Left(manager, TRUE, "Exception", NoObject)
        ELSE IF fails_at = "session" THEN Left(with_cluster, TRUE, "Exception", NoObject)
        ELSE IF keyspace # NoKeyspace THEN use_keyspace(with_session, keyspace, fails_at)
        ELSE Left(with_session, FALSE, "", NoObject)

\* ConnectionManager.disconnect
disconnect(manager) ==
    Left([manager EXCEPT !.session = NoObject, !.cluster = NoObject,
                         !._is_connected = FALSE, !.keyspace = NoKeyspace],
         FALSE, "", NoObject)

\* ConnectionManager.is_connected
is_connected(manager) == manager._is_connected /\ manager.session # NoObject

\* ConnectionManager.get_session
get_session(manager) ==
    IF manager.session = NoObject THEN Left(manager, TRUE, "RuntimeError", NoObject)
    ELSE Left(manager, FALSE, "", manager.session)

-----------------------------------------------------------------------------
(* Values and mappings handed to the query builder *)

\* a Python value: its type and, for a collection, its elements in iteration order
Value(kind, items) == [kind |-> kind, items |-> items]

NoneV == Value("NoneType", <<>>)
IntV(n) == Value("int", <<n>>)
StrV == Value("str", <<>>)
ListV(items) == Value("list", items)
TupleV(items) == Value("tuple", items)
SetV(items) == Value("set", items)

\* list(value) handed over as one parameter instead of element by element
ElementsWhole(value) == <<value>>

\* list(value): the elements as values
Elements(value) == [i \in DOMAIN value.items |-> IntV(value.items[i])]

\* an optional insertion-ordered dict
Dict(items) == [is_none |-> FALSE, items |-> items]
NoneDict == [is_none |-> TRUE, items |-> <<>>]

\* bool(mapping): None and {} are false
Truthy(mapping) == ~mapping.is_none /\ mapping.items # <<>>

Keys(mapping) == [i \in DOMAIN mapping.items |-> mapping.items[i].key]
Values(mapping) == [i \in DOMAIN mapping.items |-> mapping.items[i].value]

Entry(key, value) == [key |-> key, value |-> value]

\* the sequences of at most n entries with pairwise distinct keys
EntrySeqs(keys, values, n) ==
    UNION {{e \in [1..k -> {Entry(key, v) : key \in keys, v \in values}] :
               \A i, j \in 1..k : i # j => e[i].key # e[j].key} : k \in 0..n}

FilterKeys ==
    {<<"id">>, <<"data">>, <<"projeto">>, <<"id", "__", "exact">>, <<"id", "__", "gt">>,
     <<"id", "__", "in">>, <<"data", "__", "in">>, <<"data", "__", "like">>,
     <<"id", "__">>}

FilterValues == {IntV(7), StrV, ListV(<<1, 2>>), TupleV(<<>>), SetV(<<3>>)}

FilterDicts ==
    {NoneDict} \cup {Dict(e) : e \in EntrySeqs(FilterKeys, FilterValues, MaxEntries)}

UpdateDicts ==
    {NoneDict} \cup
    {Dict(e) : e \in EntrySeqs({<<"nome">>, <<"preco">>}, {IntV(1), IntV(2)}, MaxEntries)}

PkDicts ==
    {NoneDict} \cup
    {Dict(e) : e \in EntrySeqs({<<"id">>, <<"data">>}, {IntV(3), StrV}, MaxEntries)}

-----------------------------------------------------------------------------
(* query_builder: results *)

Returned(cql, params, warnings) ==
    [raised |-> FALSE, error |-> "", message |-> "", detail |-> NoTokens,
     valid |-> <<>>, cql |-> cql, params |-> params, warnings |-> warnings]

Raised(error, message, detail, valid) ==
    [raised |-> TRUE, error |-> error, message |-> message, detail |-> detail,
     valid |-> valid, cql |-> NoTokens, params |-> <<>>, warnings |-> <<>>]

-----------------------------------------------------------------------------
(* query_builder: the WHERE clause of build_select_cql *)

\* list(operator_map.keys())
OperatorKeys == <<"exact", "gt", "gte", "lt", "lte", "in">>

\* op in operator_map
InOperatorMap(op) == Len(op) = 1 /\ op[1] \in Range(OperatorKeys)

\* operator_map[op]
operator_map(op) ==
    CASE op = <<"exact">> -> "="
      [] op = <<"gt">> -> ">"
      [] op = <<"gte">> -> ">="
      [] op = <<"lt">> -> "<"
      [] op = <<"lte">> -> "<="
      [] op = <<"in">> -> "IN"

\* isinstance(value, (list, tuple, set)) with str counted as a collection
IsCollectionOrStr(value) == value.kind \in {"list", "tuple", "set", "str"}

\* isinstance(value, (list, tuple, set))
IsCollection(value) == value.kind \in {"list", "tuple", "set"}

\* ['?'] * n joined by ', '
Placeholders(n) == Join([i \in 1..n |-> <<"?">>], <<",">>)

\* the loop over filters.items(): the clauses and parameters so far, or the
\* error raised at the first entry that is refused
RECURSIVE FilterLoop(_, _, _)
FilterLoop(items, where_clauses, params) ==
    IF items = <<>>
    THEN [raised |-> FALSE, error |-> Raised("", "", NoTokens, <<>>),
          where_clauses |-> where_clauses, params |-> params]
    ELSE LET key == Head(items).key
             value == Head(items).value
             parts == Split(key, "__")
             field_name == parts[1]
             op == IF Len(parts) > 1 THEN parts[2] ELSE <<"exact">>
         IN  IF ~InOperatorMap(op)
             THEN [raised |-> TRUE,
                   error |-> Raised("ValueError", "unsupported_operator", op, OperatorKeys),
                   where_clauses |-> <<>>, params |-> <<>>]
             ELSE IF operator_map(op) = "IN"
             THEN IF ~IsCollection(value)
                  THEN [raised |-> TRUE,
                        error |-> Raised("TypeError", "in_needs_list_tuple_or_set",
                                         <<value.kind>>, <<>>),
                        where_clauses |-> <<>>, params |-> <<>>]
                  ELSE FilterLoop(Tail(items),
                           Append(where_clauses,
                               field_name \o <<"IN", "(">>
                                   \o Placeholders(Len(value.items)) \o <<")">>),
                           params \o Elements(value))
             ELSE FilterLoop(Tail(items),
                      Append(where_clauses, field_name \o <<operator_map(op), "?">>),
                      Append(params, value))

-----------------------------------------------------------------------------
(* query_builder.build_select_cql *)

\* field.lstrip('-')
RECURSIVE LStripDash(_)
LStripDash(field) ==
    IF field # <<>> /\ Head(field) = "-" THEN LStripDash(Tail(field)) ELSE field

\* one ORDER BY term: "name DESC" for a leading '-', "name ASC" otherwise
OrderClause(field) ==
    LStripDash(field) \o <<IF field # <<>> /\ Head(field) = "-" THEN "DESC" ELSE "ASC">>

\* the warnings for ordering fields that are not clustering keys
OrderWarnings(schema, ordering) ==
    LET off == SelectSeq(ordering,
                   LAMBDA field : /\ schema.clustering_keys # <<>>
                                  /\ LStripDash(field) \notin
                                         Range(Words(schema.clustering_keys)))
    IN  [i \in DOMAIN off |-> Log("warning", "order_by_non_clustering", "")]

\* bool(limit): None and 0 are false
LimitGiven(limit) == limit.kind # "NoneType" /\ limit # IntV(0)

\* build_select_cql that appends ALLOW FILTERING to every statement
build_select_cql_allow_always(schema, columns, filters, limit, ordering) ==
    LET select_clause == IF columns # <<>> THEN Join(Words(columns), <<",">>) ELSE <<"*">>
        head == <<"SELECT">> \o select_clause \o <<"FROM", schema.table_name>>
        loop == IF Truthy(filters) THEN FilterLoop(filters.items, <<>>, <<>>)
                ELSE FilterLoop(<<>>, <<>>, <<>>)
        where == IF Truthy(filters)
                 THEN <<"WHERE">> \o Join(loop.where_clauses, <<"AND">>) ELSE <<>>
        order == IF ordering # <<>>
                 THEN <<"ORDER", "BY">>
                          \o Join([i \in DOMAIN ordering |-> OrderClause(ordering[i])], <<",">>)
                 ELSE <<>>
        lim == IF LimitGiven(limit) THEN <<"LIMIT", "?">> ELSE <<>>
    IN  IF loop.raised THEN loop.error
        ELSE Returned(head \o where \o order \o lim \o <<"ALLOW", "FILTERING">>,
                      loop.params \o (IF LimitGiven(limit) THEN <<limit>> ELSE <<>>),
                      OrderWarnings(schema, ordering))

build_select_cql(schema, columns, filters, limit, ordering) ==
    LET select_clause == IF columns # <<>> THEN Join(Words(columns), <<",">>) ELSE <<"*">>
        head == <<"SELECT">> \o select_clause \o <<"FROM", schema.table_name>>
        loop == IF Truthy(filters) THEN FilterLoop(filters.items, <<>>, <<>>)
                ELSE FilterLoop(<<>>, <<>>, <<>>)
        where == IF Truthy(filters)
                 THEN <<"WHERE">> \o Join(loop.where_clauses, <<"AND">>) ELSE <<>>
        order == IF ordering # <<>>
                 THEN <<"ORDER", "BY">>
                          \o Join([i \in DOMAIN ordering |-> OrderClause(ordering[i])], <<",">>)
                 ELSE <<>>
        lim == IF LimitGiven(limit) THEN <<"LIMIT", "?">> ELSE <<>>
        allow == IF Truthy(filters) THEN <<"ALLOW", "FILTERING">> ELSE <<>>
    IN  IF loop.raised THEN loop.error
        ELSE Returned(head \o where \o order \o lim \o allow,
                      loop.params \o (IF LimitGiven(limit) THEN <<limit>> ELSE <<>>),
                      OrderWarnings(schema, ordering))

-----------------------------------------------------------------------------
(* query_builder.build_delete_cql *)

build_delete_cql(schema, filters) ==
    LET partition_keys == Range(Words(schema.partition_keys))
        filter_keys == Range(Keys(filters))
        where_clauses == Join([i \in DOMAIN filters.items |->
                                  filters.items[i].key \o <<"=", "?">>], <<"AND">>)
    IN  IF ~Truthy(filters)
        THEN Raised("ValueError", "mass_delete_refused", NoTokens, <<>>)
        ELSE IF ~(partition_keys \subseteq filter_keys)
        THEN Raised("ValueError", "partition_key_incomplete", NoTokens,
                    schema.partition_keys)
        ELSE Returned(<<"DELETE", "FROM", schema.table_name, "WHERE">> \o where_clauses,
                      Values(filters), <<>>)

-----------------------------------------------------------------------------
(* query_builder.build_update_cql *)

\* build_update_cql binding the WHERE values before the SET values
build_update_cql_where_first(schema, update_data, pk_filters) ==
    LET set_clause == Join([i \in DOMAIN update_data.items |->
                               update_data.items[i].key \o <<"=", "?">>], <<",">>)
        where_clause == Join([i \in DOMAIN pk_filters.items |->
                                 pk_filters.items[i].key \o <<"=", "?">>], <<"AND">>)
    IN  IF ~Truthy(update_data)
        THEN Raised("ValueError", "nothing_to_update", NoTokens, <<>>)
        ELSE IF ~Truthy(pk_filters)
        THEN Raised("ValueError", "pk_filters_required", NoTokens, <<>>)
        ELSE Returned(<<"UPDATE", schema.table_name, "SET">> \o set_clause
                          \o <<"WHERE">> \o where_clause,
                      Values(pk_filters) \o Values(update_data), <<>>)

\* build_update_cql without the test of pk_filters
build_update_cql_no_pk_test(schema, update_data, pk_filters) ==
    LET set_clause == Join([i \in DOMAIN update_data.items |->
                               update_data.items[i].key \o <<"=", "?">>], <<",">>)
        where_clause == Join([i \in DOMAIN pk_filters.items |->
                                 pk_filters.items[i].key \o <<"=", "?">>], <<"AND">>)
    IN  IF ~Truthy(update_data)
        THEN Raised("ValueError", "nothing_to_update", NoTokens, <<>>)
        ELSE Returned(<<"UPDATE", schema.table_name, "SET">> \o set_clause
                          \o <<"WHERE">> \o where_clause,
                      Values(update_data) \o Values(pk_filters), <<>>)

build_update_cql(schema, update_data, pk_filters) ==
    LET set_clause == Join([i \in DOMAIN update_data.items |->
                               update_data.items[i].key \o <<"=", "?">>], <<",">>)
        where_clause == Join([i \in DOMAIN pk_filters.items |->
                                 pk_filters.items[i].key \o <<"=", "?">>], <<"AND">>)
    IN  IF ~Truthy(update_data)
        THEN Raised("ValueError", "nothing_to_update", NoTokens, <<>>)
        ELSE IF ~Truthy(pk_filters)
        THEN Raised("ValueError", "pk_filters_required", NoTokens, <<>>)
        ELSE Returned(<<"UPDATE", schema.table_name, "SET">> \o set_clause
                          \o <<"WHERE">> \o where_clause,
                      Values(update_data) \o Values(pk_filters), <<>>)

-----------------------------------------------------------------------------
(* query_builder.build_count_cql *)

\* the loop over filters.items() of build_count_cql
RECURSIVE CountFilterLoop(_, _, _)
CountFilterLoop(items, where_clauses, params) ==
    IF items = <<>>
    THEN [raised |-> FALSE, error |-> Raised("", "", NoTokens, <<>>),
          where_clauses |-> where_clauses, params |-> params]
    ELSE LET key == Head(items).key
             value == Head(items).value
             parts == Split(key, "__")
             field_name == parts[1]
             op == IF Len(parts) > 1 THEN parts[2] ELSE <<"exact">>
             cql_operator == operator_map(op)
         IN  IF ~InOperatorMap(op)
             THEN [raised |-> TRUE,
                   error |-> Raised("ValueError", "unsupported_operator", op, OperatorKeys),
                   where_clauses |-> <<>>, params |-> <<>>]
             ELSE IF cql_operator = "IN"
             THEN IF value.kind \notin {"list", "tuple", "set"}
                  THEN [raised |-> TRUE,
                        error |-> Raised("TypeError", "in_needs_list_tuple_or_set",
                                         <<value.kind>>, <<>>),
                        where_clauses |-> <<>>, params |-> <<>>]
                  ELSE CountFilterLoop(Tail(items),
                           Append(where_clauses,
                               field_name \o <<"IN", "(">>
                                   \o Join([i \in 1..Len(value.items) |-> <<"?">>], <<",">>)
                                   \o <<")">>),
                           params \o [i \in DOMAIN value.items |-> IntV(value.items[i])])
             ELSE CountFilterLoop(Tail(items),
                      Append(where_clauses, field_name \o <<cql_operator, "?">>),
                      Append(params, value))

\* build_count_cql that leaves ALLOW FILTERING out
build_count_cql_no_allow(schema, filters) ==
    LET head == <<"SELECT", "COUNT(*)", "FROM", schema.table_name>>
        loop == CountFilterLoop(filters.items, <<>>, <<>>)
    IN  IF ~Truthy(filters) THEN Returned(head, <<>>, <<>>)
        ELSE IF loop.raised THEN loop.error
        ELSE Returned(head \o <<"WHERE">> \o Join(loop.where_clauses, <<"AND">>),
                      loop.params, <<>>)

build_count_cql(schema, filters) ==
    LET head == <<"SELECT", "COUNT(*)", "FROM", schema.table_name>>
        loop == CountFilterLoop(filters.items, <<>>, <<>>)
    IN  IF ~Truthy(filters) THEN Returned(head, <<>>, <<>>)
        ELSE IF loop.raised THEN loop.error
        ELSE Returned(head \o <<"WHERE">> \o Join(loop.where_clauses, <<"AND">>)
                          \o <<"ALLOW", "FILTERING">>,
                      loop.params, <<>>)

-----------------------------------------------------------------------------
(* query_builder.build_collection_update_cql *)

\* bool(value) of an optional collection: None and the empty collection are false
NonEmpty(value) == value.kind # "NoneType" /\ value.items # <<>>

\* list(value): the same elements as a list
AsList(value) == ListV(value.items)

\* build_collection_update_cql binding the WHERE values before add and remove
build_collection_update_cql_pk_first(schema, field_name, add, remove, pk_filters) ==
    LET added == IF NonEmpty(add)
                 THEN <<<<field_name, "=", field_name, "+", "?">>>> ELSE <<>>
        removed == IF NonEmpty(remove)
                   THEN <<<<field_name, "=", field_name, "-", "?">>>> ELSE <<>>
        set_clause == Join(added \o removed, <<",">>)
        where_clause == Join([i \in DOMAIN pk_filters.items |->
                                 pk_filters.items[i].key \o <<"=", "?">>], <<"AND">>)
        params == Values(pk_filters)
                      \o (IF NonEmpty(add) THEN <<AsList(add)>> ELSE <<>>)
                      \o (IF NonEmpty(remove) THEN <<AsList(remove)>> ELSE <<>>)
    IN  IF add.kind = "NoneType" /\ remove.kind = "NoneType"
        THEN Raised("ValueError", "add_or_remove_required", NoTokens, <<>>)
        ELSE Returned(<<"UPDATE", schema.table_name, "SET">> \o set_clause
                          \o <<"WHERE">> \o where_clause,
                      params, <<>>)

build_collection_update_cql(schema, field_name, add, remove, pk_filters) ==
    LET added == IF NonEmpty(add)
                 THEN <<<<field_name, "=", field_name, "+", "?">>>> ELSE <<>>
        removed == IF NonEmpty(remove)
                   THEN <<<<field_name, "=", field_name, "-", "?">>>> ELSE <<>>
        set_clause == Join(added \o removed, <<",">>)
        where_clause == Join([i \in DOMAIN pk_filters.items |->
                                 pk_filters.items[i].key \o <<"=", "?">>], <<"AND">>)
        params == (IF NonEmpty(add) THEN <<AsList(add)>> ELSE <<>>)
                      \o (IF NonEmpty(remove) THEN <<AsList(remove)>> ELSE <<>>)
                      \o Values(pk_filters)
    IN  IF add.kind = "NoneType" /\ remove.kind = "NoneType"
        THEN Raised("ValueError", "add_or_remove_required", NoTokens, <<>>)
        ELSE Returned(<<"UPDATE", schema.table_name, "SET">> \o set_clause
                          \o <<"WHERE">> \o where_clause,
                      params, <<>>)

-----------------------------------------------------------------------------
(* query_builder.build_create_table_cql *)

\* _get_cql_type: a composed type as it is, a known name as itself, any other
\* name as text
get_cql_type(field_type) ==
    IF "<" \in Range(field_type) THEN field_type
    ELSE IF field_type[1] \in {"text", "uuid", "int", "bigint", "float", "double",
                               "boolean", "timestamp", "date", "time", "blob",
                               "decimal", "varint", "inet", "varchar"}
    THEN field_type
    ELSE <<"text">>

\* query_builder.build_create_table_cql: the statement as tokens, or the
\* IndexError of primary_keys[0] on an empty key list
qb_build_create_table_cql(schema) ==
    LET primary_keys == schema.primary_keys
        column_definitions == [i \in DOMAIN schema.fields |->
                                  <<schema.fields[i].name>>
                                      \o get_cql_type(schema.fields[i].type)]
        partition_key == primary_keys[1]
        clustering_keys == Tail(primary_keys)
        pk_clause ==
            IF Len(primary_keys) = 1
            THEN <<"PRIMARY", "KEY", "(", primary_keys[1], ")">>
            ELSE IF clustering_keys # <<>>
            THEN <<"PRIMARY", "KEY", "(", partition_key, ",">>
                     \o Join(Words(clustering_keys), <<",">>) \o <<")">>
            ELSE <<"PRIMARY", "KEY", "(", partition_key, ")">>
    IN  IF primary_keys = <<>>
        THEN Raised("IndexError", "list_index_out_of_range", NoTokens, <<>>)
        ELSE Returned(<<"CREATE", "TABLE", "IF", "NOT", "EXISTS", schema.table_name, "(">>
                          \o Join(column_definitions, <<",">>) \o <<",">> \o pk_clause
                          \o <<")">>,
                      <<>>, <<>>)

-----------------------------------------------------------------------------
(* The query-builder state machine: one call per behaviour *)

Request(fn, schema, columns, filters, limit, ordering, update_data) ==
    [fn |-> fn, schema |-> schema, columns |-> columns, filters |-> filters,
     limit |-> limit, ordering |-> ordering, update_data |-> update_data,
     field_name |-> "", add |-> NoneV, remove |-> NoneV]

NoCall ==
    Request("none", ProdutoOriginal, <<>>, NoneDict, NoneV, <<>>, NoneDict)

\* columns, limit and ordering of the SELECT calls tried
SelectOptions ==
    {[columns |-> <<>>, limit |-> NoneV, ordering |-> <<>>],
     [columns |-> <<"id", "nome">>, limit |-> IntV(5), ordering |-> <<>>],
     [columns |-> <<>>, limit |-> IntV(0), ordering |-> <<<<"-", "id">>>>],
     [columns |-> <<"id">>, limit |-> IntV(5),
      ordering |-> <<<<"descricao">>, <<"-", "id">>>>]}

InitQB ==
    /\ model_schema = ProdutoOriginal
    /\ db = NoTable
    /\ calls = <<>>
    /\ request = NoCall
    /\ result = Returned(NoTokens, <<>>, <<>>)
    /\ procs = NotRunning
    /\ connection = ConnectionManager_init

BuildSelect ==
    /\ request.fn = "none"
    /\ \E schema \in {ProdutoOriginal, Tarefa}, o \in SelectOptions, filters \in FilterDicts :
          /\ request' = Request("build_select_cql", schema, o.columns, filters,
                                o.limit, o.ordering, NoneDict)
          /\ result' = build_select_cql(schema, o.columns, filters, o.limit, o.ordering)
    /\ UNCHANGED syncVars

BuildDelete ==
    /\ request.fn = "none"
    /\ \E schema \in {ProdutoOriginal, Tarefa, Evento}, filters \in FilterDicts :
          /\ request' = Request("build_delete_cql", schema, <<>>, filters, NoneV, <<>>,
                                NoneDict)
          /\ result' = build_delete_cql(schema, filters)
    /\ UNCHANGED syncVars

BuildUpdate ==
    /\ request.fn = "none"
    /\ \E schema \in {ProdutoOriginal, ProdutoComIndice},
          update_data \in UpdateDicts, pk_filters \in PkDicts :
          /\ request' = Request("build_update_cql", schema, <<>>, pk_filters, NoneV, <<>>,
                                update_data)
          /\ result' = build_update_cql(schema, update_data, pk_filters)
    /\ UNCHANGED syncVars

BuildCount ==
    /\ request.fn = "none"
    /\ \E schema \in {ProdutoOriginal, Tarefa}, filters \in FilterDicts :
          /\ request' = Request("build_count_cql", schema, <<>>, filters, NoneV, <<>>,
                                NoneDict)
          /\ result' = build_count_cql(schema, filters)
    /\ UNCHANGED syncVars

\* the collections given as add and remove
CollectionArgs == {NoneV, ListV(<<>>), ListV(<<1, 2>>), SetV(<<3>>)}

BuildCollectionUpdate ==
    /\ request.fn = "none"
    /\ \E add, remove \in CollectionArgs, pk_filters \in PkDicts \ {NoneDict} :
          /\ request' = [Request("build_collection_update_cql", Post, <<>>, pk_filters,
                                 NoneV, <<>>, NoneDict)
                             EXCEPT !.field_name = "tags", !.add = add, !.remove = remove]
          /\ result' = build_collection_update_cql(Post, "tags", add, remove, pk_filters)
    /\ UNCHANGED syncVars

BuildCreateTable ==
    /\ request.fn = "none"
    /\ \E schema \in DeclaredSchemas :
          /\ request' = Request("build_create_table_cql", schema, <<>>, NoneDict, NoneV,
                                <<>>, NoneDict)
          /\ result' = qb_build_create_table_cql(schema)
    /\ UNCHANGED syncVars

NextQB ==
    \/ BuildSelect
    \/ BuildDelete
    \/ BuildUpdate
    \/ BuildCount
    \/ BuildCollectionUpdate
    \/ BuildCreateTable

SpecQB == InitQB /\ [][NextQB]_vars

-----------------------------------------------------------------------------
(* fields.py: Python values *)

\* scalars carry their payload as the one item; a list or set carries its
\* elements (values) in iteration order, a dict its entries in insertion order
PyStr(s) == Value("str", <<s>>)
PyBool(b) == Value("bool", <<b>>)
PyFloat(n) == Value("float", <<n>>)
PyUuid(u) == Value("UUID", <<u>>)
PyDict(entries) == Value("dict", entries)

\* a callable without arguments, given by the value it returns
PyFunction(returns) == Value("function", <<returns>>)

\* callable(value)
Callable(value) == value.kind = "function"

\* isinstance(value, python_type): bool is a subclass of int
IsInstance(value, python_type) ==
    value.kind = python_type \/ (python_type = "int" /\ value.kind = "bool")

\* the texts that spell a number, and the number
Numeric(s) == s \in {"12", "7"}
NumberOf(s) == IF s = "12" THEN 12 ELSE 7

\* the texts that spell a UUID
UuidText(s) == s \in {"u1", "u2"}

\* bool(value)
TruthValue(value) ==
    CASE value.kind = "NoneType" -> FALSE
      [] value.kind = "bool" -> value.items[1]
      [] value.kind \in {"int", "float"} -> value.items[1] # 0
      [] value.kind = "str" -> value.items[1] # ""
      [] value.kind \in {"list", "tuple", "set", "dict"} -> value.items # <<>>
      [] OTHER -> TRUE

\* the outcome of a conversion: a value, or the exception raised
Converted(value) == [raised |-> FALSE, error |-> "", detail |-> NoneV, value |-> value]
ConversionError(error, detail) ==
    [raised |-> TRUE, error |-> error, detail |-> detail, value |-> NoneV]

\* python_type(value) for the python_type of a scalar field
Construct(python_type, value) ==
    CASE python_type = "str" ->
             Converted(CASE value.kind = "str" -> value
                         [] value.kind = "int" -> PyStr(ToString(value.items[1]))
                         [] value.kind = "float" -> PyStr(ToString(value.items[1]) \o ".0")
                         [] value.kind = "bool" ->
                                PyStr(IF value.items[1] THEN "True" ELSE "False")
                         [] value.kind = "UUID" -> PyStr(value.items[1])
                         [] OTHER -> PyStr("repr"))
      [] python_type = "int" ->
             CASE value.kind = "int" -> Converted(value)
               [] value.kind = "bool" -> Converted(IntV(IF value.items[1] THEN 1 ELSE 0))
               [] value.kind = "float" -> Converted(IntV(value.items[1]))
               [] value.kind = "str" ->
                      IF Numeric(value.items[1])
                      THEN Converted(IntV(NumberOf(value.items[1])))
                      ELSE ConversionError("ValueError", value)
               [] value.kind = "UUID" -> Converted(Value("int", value.items))
               [] OTHER -> ConversionError("TypeError", value)
      [] python_type = "float" ->
             CASE value.kind = "float" -> Converted(value)
               [] value.kind = "int" -> Converted(PyFloat(value.items[1]))
               [] value.kind = "bool" -> Converted(PyFloat(IF value.items[1] THEN 1 ELSE 0))
               [] value.kind = "str" ->
                      IF Numeric(value.items[1])
                      THEN Converted(PyFloat(NumberOf(value.items[1])))
                      ELSE ConversionError("ValueError", value)
               [] OTHER -> ConversionError("TypeError", value)
      [] python_type = "bool" -> Converted(PyBool(TruthValue(value)))
      [] python_type = "UUID" ->
             \* uuid.UUID(hex) calls hex.replace: only a str has it
             CASE value.kind = "str" ->
                      IF UuidText(value.items[1]) THEN Converted(PyUuid(value.items[1]))
                      ELSE ConversionError("ValueError", value)
               [] OTHER -> ConversionError("AttributeError", value)

-----------------------------------------------------------------------------
(* fields.py: field objects and their construction *)

FieldClasses ==
    {"Text", "UUID", "Integer", "Float", "Boolean", "Timestamp", "List", "Set", "Map"}

CollectionClasses == {"List", "Set", "Map"}

\* python_type of a field class
python_type(cls) ==
    CASE cls = "Text" -> "str"
      [] cls = "UUID" -> "UUID"
      [] cls = "Integer" -> "int"
      [] cls = "Float" -> "float"
      [] cls = "Boolean" -> "bool"
      [] cls = "Timestamp" -> "str"
      [] cls = "List" -> "list"
      [] cls = "Set" -> "set"
      [] cls = "Map" -> "dict"

\* the keyword arguments of a field constructor; has_default tells 'default'
\* given from 'default' left out
Kwargs(primary_key, partition_key, clustering_key, index, required, has_default, default) ==
    [primary_key |-> primary_key, partition_key |-> partition_key,
     clustering_key |-> clustering_key, index |-> index, required |-> required,
     has_default |-> has_default, default |-> default]

NoKwargs == Kwargs(FALSE, FALSE, FALSE, FALSE, FALSE, FALSE, NoneV)

\* a field object: its class, its inner field objects (one for a List or Set,
\* key and value for a Map) and the attributes BaseField.__init__ sets
FieldObject(cls, inner, kwargs, partition_key) ==
    [cls |-> cls, inner |-> inner, primary_key |-> kwargs.primary_key,
     partition_key |-> partition_key, clustering_key |-> kwargs.clustering_key,
     index |-> kwargs.index, required |-> kwargs.required,
     default |-> IF kwargs.has_default THEN kwargs.default ELSE NoneV]

\* the outcome of a constructor: the field object, or the exception raised
Constructed(field) == [raised |-> FALSE, error |-> "", field |-> <<field>>]
ConstructionError(error) == [raised |-> TRUE, error |-> error, field |-> <<>>]

\* BaseField.__init__ testing the default by its truth value
BaseField_init_truthy(cls, inner, kwargs) ==
    LET default == IF kwargs.has_default THEN kwargs.default ELSE NoneV
        partition_key == kwargs.primary_key \/ kwargs.partition_key
    IN  IF TruthValue(default) /\ kwargs.required
        THEN ConstructionError("ValueError")
        ELSE Constructed(FieldObject(cls, inner, kwargs, partition_key))

\* BaseField.__init__
BaseField_init(cls, inner, kwargs) ==
    LET default == IF kwargs.has_default THEN kwargs.default ELSE NoneV
        partition_key == kwargs.primary_key \/ kwargs.partition_key
    IN  IF default.kind # "NoneType" /\ kwargs.required
        THEN ConstructionError("ValueError")
        ELSE Constructed(FieldObject(cls, inner, kwargs, partition_key))

\* uuid.uuid4(): the identifier is new at each call
uuid4 == PyFunction(PyUuid("fresh"))

\* UUID.__init__: a primary key without 'default' gets the generator
UUID_init(kwargs) ==
    IF kwargs.primary_key /\ ~kwargs.has_default
    THEN BaseField_init("UUID", <<>>, [kwargs EXCEPT !.has_default = TRUE, !.default = uuid4])
    ELSE BaseField_init("UUID", <<>>, kwargs)

\* List.__init__, Set.__init__, Map.__init__: inner holds the positional
\* arguments, a field object each when inner_ok
Collection_init(cls, inner, inner_ok, kwargs) ==
    IF ~inner_ok THEN ConstructionError("TypeError")
    ELSE BaseField_init(cls, inner, kwargs)

\* cls(*inner, **kwargs)
NewFieldObject(cls, inner, inner_ok, kwargs) ==
    CASE cls = "UUID" -> UUID_init(kwargs)
      [] cls \in CollectionClasses -> Collection_init(cls, inner, inner_ok, kwargs)
      [] OTHER -> BaseField_init(cls, <<>>, kwargs)

-----------------------------------------------------------------------------
(* fields.py: to_python *)

\* the characters of a text
CharsOf(s) ==
    CASE s = "" -> <<>>
      [] s = "abc" -> <<PyStr("a"), PyStr("b"), PyStr("c")>>
      [] s = "12" -> <<PyStr("1"), PyStr("2")>>
      [] s = "valor" -> <<PyStr("v"), PyStr("a"), PyStr("l"), PyStr("o"), PyStr("r")>>
      [] OTHER -> <<PyStr(s)>>

\* iter(value) succeeds
Iterable(value) == value.kind \in {"list", "tuple", "set", "dict", "str"}

\* the items 'for item in value' goes through
Iterate(value) ==
    CASE value.kind \in {"list", "tuple", "set"} -> value.items
      [] value.kind = "dict" -> [i \in DOMAIN value.items |-> value.items[i].key]
      [] value.kind = "str" -> CharsOf(value.items[1])

\* BaseField.to_python, and Text.to_python
ScalarToPython(field, value) ==
    LET made == Construct(python_type(field.cls), value)
    IN  IF value.kind = "NoneType" THEN Converted(NoneV)
        ELSE IF field.cls = "Text"
        THEN IF value.kind # "str" THEN ConversionError("TypeError", value)
             ELSE Converted(value)
        ELSE IF made.raised /\ made.error \in {"TypeError", "ValueError"}
        THEN ConversionError("TypeError", value)
        ELSE made

\* the loop of List.to_python (result.append) and Set.to_python (result.add)
RECURSIVE ConvertItems(_, _, _, _)
ConvertItems(inner_field, as_set, items, acc) ==
    IF items = <<>> THEN Converted(Value(IF as_set THEN "set" ELSE "list", acc))
    ELSE LET item == ScalarToPython(inner_field, Head(items))
         IN  IF item.raised /\ item.error = "TypeError"
             THEN ConversionError("TypeError", Head(items))
             ELSE IF item.raised THEN item
             ELSE ConvertItems(inner_field, as_set, Tail(items),
                      IF as_set /\ item.value \in Range(acc) THEN acc
                      ELSE Append(acc, item.value))

\* result[key] = val
SetItem(entries, key, val) ==
    IF \E i \in DOMAIN entries : entries[i].key = key
    THEN [i \in DOMAIN entries |->
             IF entries[i].key = key THEN Entry(key, val) ELSE entries[i]]
    ELSE Append(entries, Entry(key, val))

\* the loop of Map.to_python: the key of an entry, then its value
RECURSIVE ConvertEntries(_, _, _, _)
ConvertEntries(key_field, value_field, entries, acc) ==
    IF entries = <<>> THEN Converted(PyDict(acc))
    ELSE LET key == ScalarToPython(key_field, Head(entries).key)
             val == ScalarToPython(value_field, Head(entries).value)
         IN  IF key.raised /\ key.error = "TypeError"
             THEN ConversionError("TypeError", Head(entries).key)
             ELSE IF key.raised THEN key
             ELSE IF val.raised /\ val.error = "TypeError"
             THEN ConversionError("TypeError", Head(entries).value)
             ELSE IF val.raised THEN val
             ELSE ConvertEntries(key_field, value_field, Tail(entries),
                                 SetItem(acc, key.value, val.value))

\* field.to_python(value)
to_python(field, value) ==
    CASE field.cls = "List" ->
             IF value.kind = "NoneType" THEN Converted(ListV(<<>>))
             ELSE IF ~Iterable(value) THEN ConversionError("TypeError", value)
             ELSE ConvertItems(field.inner[1], FALSE, Iterate(value), <<>>)
      [] field.cls = "Set" ->
             IF value.kind = "NoneType" THEN Converted(SetV(<<>>))
             ELSE IF ~Iterable(value) THEN ConversionError("TypeError", value)
             ELSE ConvertItems(field.inner[1], TRUE, Iterate(value), <<>>)
      [] field.cls = "Map" ->
             IF value.kind = "NoneType" THEN Converted(PyDict(<<>>))
             ELSE IF value.kind # "dict" THEN ConversionError("AttributeError", value)
             ELSE ConvertEntries(field.inner[1], field.inner[2], value.items, <<>>)
      [] OTHER -> ScalarToPython(field, value)

-----------------------------------------------------------------------------
(* fields.py: to_cql *)

\* BaseField.to_cql: None for None, any other value as it is
ScalarToCql(field, value) ==
    IF value.kind = "NoneType" THEN Converted(NoneV) ELSE Converted(value)

\* the loop of List.to_cql and Set.to_cql: result.append
RECURSIVE ConvertItemsCql(_, _, _)
ConvertItemsCql(inner_field, items, acc) ==
    IF items = <<>> THEN Converted(ListV(acc))
    ELSE LET item == ScalarToCql(inner_field, Head(items))
         IN  IF item.raised /\ item.error = "TypeError"
             THEN ConversionError("TypeError", Head(items))
             ELSE IF item.raised THEN item
             ELSE ConvertItemsCql(inner_field, Tail(items), Append(acc, item.value))

\* the loop of Map.to_cql: the key of an entry, then its value
RECURSIVE ConvertEntriesCql(_, _, _, _)
ConvertEntriesCql(key_field, value_field, entries, acc) ==
    IF entries = <<>> THEN Converted(PyDict(acc))
    ELSE LET key == ScalarToCql(key_field, Head(entries).key)
             val == ScalarToCql(value_field, Head(entries).value)
         IN  IF key.raised /\ key.error = "TypeError"
             THEN ConversionError("TypeError", Head(entries).key)
             ELSE IF key.raised THEN key
             ELSE IF val.raised /\ val.error = "TypeError"
             THEN ConversionError("TypeError", Head(entries).value)
             ELSE IF val.raised THEN val
             ELSE ConvertEntriesCql(key_field, value_field, Tail(entries),
                                    SetItem(acc, key.value, val.value))

\* field.to_cql(value)
to_cql(field, value) ==
    CASE field.cls \in {"List", "Set"} ->
             IF value.kind = "NoneType" THEN Converted(NoneV)
             ELSE IF ~Iterable(value) THEN ConversionError("TypeError", value)
             ELSE ConvertItemsCql(field.inner[1], Iterate(value), <<>>)
      [] field.cls = "Map" ->
             IF value.kind = "NoneType" THEN Converted(NoneV)
             ELSE IF value.kind # "dict" THEN ConversionError("AttributeError", value)
             ELSE ConvertEntriesCql(field.inner[1], field.inner[2], value.items, <<>>)
      [] OTHER -> ScalarToCql(field, value)

\* field.to_python(field.to_cql(value))
round_trip(field, value) ==
    LET wire == to_cql(field, value)
    IN  IF wire.raised THEN wire ELSE to_python(field, wire.value)

-----------------------------------------------------------------------------
(* model.py: Model.__init__, results.py: _map_row_to_instance *)

\* kwargs.get(key)
Get(kwargs, key) ==
    IF \E i \in DOMAIN kwargs.items : kwargs.items[i].key = key
    THEN kwargs.items[CHOOSE i \in DOMAIN kwargs.items : kwargs.items[i].key = key].value
    ELSE NoneV

\* the value Model.__init__ stores for one field, or the exception raised
InitValue(field_obj, given) ==
    LET value == IF given.kind = "NoneType" /\ field_obj.default.kind # "NoneType"
                 THEN IF Callable(field_obj.default) THEN field_obj.default.items[1]
                      ELSE field_obj.default
                 ELSE given
    IN  IF python_type(field_obj.cls) \in {"list", "set", "dict"}
        THEN to_python(field_obj, value)
        ELSE IF value.kind # "NoneType" /\ ~IsInstance(value, python_type(field_obj.cls))
        THEN to_python(field_obj, value)
        ELSE Converted(value)

\* the outcome of Model.__init__: the attributes of the instance in the order
\* of model_fields, or the exception raised
Instance(data) == [raised |-> FALSE, error |-> "", data |-> data]
InstanceError(error) == [raised |-> TRUE, error |-> error, data |-> <<>>]

RECURSIVE InitLoop(_, _, _)
InitLoop(model_fields, kwargs, data) ==
    IF model_fields = <<>> THEN Instance(data)
    ELSE LET key == Head(model_fields).key
             stored == InitValue(Head(model_fields).value, Get(kwargs, key))
         IN  IF stored.raised THEN InstanceError(stored.error)
             ELSE InitLoop(Tail(model_fields), kwargs, Append(data, Entry(key, stored.value)))

\* model_cls(**kwargs)
Model_init(model_fields, kwargs) == InitLoop(model_fields, kwargs, <<>>)

\* _map_row_to_instance(model_cls, row_dict)
map_row_to_instance(model_fields, row_dict) == Model_init(model_fields, row_dict)

-----------------------------------------------------------------------------
(* The field state machine: a field is constructed, then converts a value or *)
(* is the field 'campo' of a model whose instance is built from a row        *)

FieldCall(fn, cls, inner, inner_ok, kwargs, field, value, row_dict) ==
    [fn |-> fn, cls |-> cls, inner |-> inner, inner_ok |-> inner_ok, kwargs |-> kwargs,
     field |-> field, value |-> value, row_dict |-> row_dict]

NoFieldCall == FieldCall("none", "Text", <<>>, TRUE, NoKwargs, <<>>, NoneV, NoneDict)

\* what a call left: the exception raised, or the field object, the converted
\* value or the attributes of the instance
FieldOutcome(raised, error, field, value, data) ==
    [raised |-> raised, error |-> error, field |-> field, value |-> value, data |-> data]

\* Text(), Integer() and UUID() as the inner fields of a collection
InnerText == BaseField_init("Text", <<>>, NoKwargs).field[1]
InnerInteger == BaseField_init("Integer", <<>>, NoKwargs).field[1]
InnerUUID == UUID_init(NoKwargs).field[1]

\* the positional arguments tried with a class; <<>> for a collection stands
\* for an argument that is no field object
InnerFor(cls) ==
    CASE cls \in {"List", "Set"} -> {<<>>, <<InnerText>>, <<InnerInteger>>, <<InnerUUID>>}
      [] cls = "Map" -> {<<>>, <<InnerText, InnerText>>, <<InnerText, InnerInteger>>}
      [] OTHER -> {<<>>}

\* the 'default' arguments tried with a class: left out, None, a value, a
\* value that is false, a callable
DefaultsFor(cls) ==
    LET some == CASE cls \in {"List", "Set"} -> ListV(<<PyStr("a")>>)
                  [] cls = "Map" -> PyDict(<<Entry(PyStr("k"), PyStr("v"))>>)
                  [] cls = "UUID" -> PyUuid("u2")
                  [] cls = "Integer" -> IntV(5)
                  [] cls = "Float" -> PyFloat(5)
                  [] cls = "Boolean" -> PyBool(TRUE)
                  [] OTHER -> PyStr("valor")
        empty == CASE cls \in {"List", "Set"} -> ListV(<<>>)
                   [] cls = "Map" -> PyDict(<<>>)
                   [] cls = "UUID" -> PyUuid("u2")
                   [] cls = "Integer" -> IntV(0)
                   [] cls = "Float" -> PyFloat(0)
                   [] cls = "Boolean" -> PyBool(FALSE)
                   [] OTHER -> PyStr("")
    IN  {[has_default |-> FALSE, default |-> NoneV],
         [has_default |-> TRUE, default |-> NoneV],
         [has_default |-> TRUE, default |-> some],
         [has_default |-> TRUE, default |-> empty],
         [has_default |-> TRUE, default |-> PyFunction(some)]}

\* the keyword arguments tried with a class: every combination of the key
\* flags, of required and of the defaults, and index=True on a plain field
KwargsFor(cls) ==
    {Kwargs(pk, part, clus, FALSE, required, d.has_default, d.default) :
         pk \in BOOLEAN, part \in BOOLEAN, clus \in BOOLEAN,
         required \in BOOLEAN, d \in DefaultsFor(cls)}
    \cup {Kwargs(FALSE, FALSE, FALSE, TRUE, FALSE, d.has_default, d.default) :
              d \in DefaultsFor(cls)}

\* the values handed to to_python and found in rows
ValuesFor(cls) ==
    IF cls \in CollectionClasses
    THEN {NoneV, ListV(<<>>), ListV(<<PyStr("a"), IntV(1)>>),
          ListV(<<PyStr("u1"), IntV(1)>>), SetV(<<PyStr("a"), PyStr("b")>>),
          PyDict(<<Entry(PyStr("k"), PyStr("v"))>>),
          PyDict(<<Entry(PyStr("k"), IntV(1)), Entry(IntV(2), PyStr("v"))>>)}
    ELSE {NoneV, PyStr("abc"), PyStr("12"), PyStr("u1"), IntV(7), PyBool(TRUE),
          PyFloat(7), PyUuid("u1")}

\* the rows mapped to an instance: without any column, without 'campo', with
\* 'campo' null, with 'campo' holding a value
RowDictsFor(cls) ==
    {Dict(<<>>), Dict(<<Entry("id", PyUuid("u1"))>>)}
    \cup {Dict(<<Entry("id", PyUuid("u1")), Entry("campo", v)>>) : v \in ValuesFor(cls)}

\* model_fields of a model that declares id = UUID(primary_key=True) and campo
ModelFields(field) ==
    <<Entry("id", UUID_init([NoKwargs EXCEPT !.primary_key = TRUE]).field[1]),
      Entry("campo", field)>>

InitFields ==
    /\ model_schema = ProdutoOriginal
    /\ db = NoTable
    /\ calls = <<>>
    /\ request = NoFieldCall
    /\ result = FieldOutcome(FALSE, "", <<>>, NoneV, <<>>)
    /\ procs = NotRunning
    /\ connection = ConnectionManager_init

\* fields.Cls(*inner, **kwargs)
NewField ==
    /\ request.fn = "none"
    /\ \E cls \in FieldClasses :
          \E kwargs \in KwargsFor(cls), inner \in InnerFor(cls) :
              LET inner_ok == cls \in CollectionClasses => inner # <<>>
                  made == NewFieldObject(cls, inner, inner_ok, kwargs)
              IN  /\ request' = FieldCall("Field", cls, inner, inner_ok, kwargs, <<>>,
                                          NoneV, NoneDict)
                  /\ result' = FieldOutcome(made.raised, made.error, made.field, NoneV, <<>>)
    /\ UNCHANGED syncVars

\* field.to_python(value) on the field just constructed
FieldToPython ==
    /\ request.fn = "Field"
    /\ ~result.raised
    /\ \E value \in ValuesFor(request.cls) :
          LET field == result.field[1]
              out == to_python(field, value)
          IN  /\ request' = [request EXCEPT !.fn = "to_python", !.field = <<field>>,
                                            !.value = value]
              /\ result' = FieldOutcome(out.raised, out.error, <<>>, out.value, <<>>)
    /\ UNCHANGED syncVars

\* an instance of a model that declares the field just constructed, built by
\* _map_row_to_instance from a row or by the caller as Model(**kwargs): both
\* are model_cls(**row_dict)
MapRowToInstance ==
    /\ request.fn = "Field"
    /\ ~result.raised
    /\ \E row_dict \in RowDictsFor(request.cls), fn \in {"_map_row_to_instance", "Model"} :
          LET field == result.field[1]
              out == map_row_to_instance(ModelFields(field), row_dict)
          IN  /\ request' = [request EXCEPT !.fn = fn,
                                            !.field = <<field>>, !.row_dict = row_dict]
              /\ result' = FieldOutcome(out.raised, out.error, <<>>, NoneV, out.data)
    /\ UNCHANGED syncVars

\* field.to_cql(value) on the field just constructed
FieldToCql ==
    /\ request.fn = "Field"
    /\ ~result.raised
    /\ \E value \in ValuesFor(request.cls) :
          LET field == result.field[1]
              out == to_cql(field, value)
          IN  /\ request' = [request EXCEPT !.fn = "to_cql", !.field = <<field>>,
                                            !.value = value]
              /\ result' = FieldOutcome(out.raised, out.error, <<>>, out.value, <<>>)
    /\ UNCHANGED syncVars

\* a value written and read back: field.to_python(field.to_cql(value))
FieldRoundTrip ==
    /\ request.fn = "Field"
    /\ ~result.raised
    /\ \E value \in ValuesFor(request.cls) :
          LET field == result.field[1]
              out == round_trip(field, value)
          IN  /\ request' = [request EXCEPT !.fn = "round_trip", !.field = <<field>>,
                                            !.value = value]
              /\ result' = FieldOutcome(out.raised, out.error, <<>>, out.value, <<>>)
    /\ UNCHANGED syncVars

NextFields ==
    NewField \/ FieldToPython \/ MapRowToInstance \/ FieldToCql \/ FieldRoundTrip

SpecFields == InitFields /\ [][NextFields]_vars

-----------------------------------------------------------------------------
(* The synchronisation state machine *)

Call(auto_apply, before, out) ==
    [auto_apply |-> auto_apply, before |-> before,
     introspection |-> out.introspection, diff |-> out.diff, stmts |-> out.stmts,
     logs |-> out.logs, raised |-> out.raised, after |-> out.db]

\* the tables a run can start from: none, or the one an earlier model created
InitialTables ==
    {NoTable} \cup
    {ExecCreateTable(NoTable, build_create_table_cql(TABLE, m)) : m \in DeclaredSchemas}

InitSync ==
    /\ model_schema \in DeclaredSchemas
    /\ db \in InitialTables
    /\ calls = <<>>
    /\ request = NoCall
    /\ result = Returned(NoTokens, <<>>, <<>>)
    /\ procs = NotRunning
    /\ connection = ConnectionManager_init

\* one whole sync_table invocation
SyncTable ==
    /\ Len(calls) < MaxCalls
    /\ \E auto_apply, verbose, session_ok, introspect_ok, create_fails \in BOOLEAN,
          rows \in ResultOrders(db),
          add_fails \in SUBSET (Range(FieldNames(model_schema)) \ ColumnNames(db)) :
          LET out == sync_table(model_schema, db, auto_apply, verbose, session_ok,
                                introspect_ok, rows, create_fails, add_fails)
          IN  /\ calls' = Append(calls, Call(auto_apply, db, out))
              /\ db' = out.db
    /\ UNCHANGED <<model_schema, request, result, procs, connection>>

NextSync == SyncTable

Spec == InitSync /\ [][NextSync]_vars

-----------------------------------------------------------------------------
(* Two sync_table(auto_apply=True) invocations for one model, their calls  *)
(* to the executor interleaved                                             *)

InitConcurrent ==
    /\ model_schema \in DeclaredSchemas
    /\ db \in InitialTables
    /\ calls = <<>>
    /\ request = NoCall
    /\ result = Returned(NoTokens, <<>>, <<>>)
    /\ procs = [p \in Invocations |-> NewProc]
    /\ connection = ConnectionManager_init

\* the catalog query of invocation p
Introspect(p) ==
    /\ procs[p].pc = "introspect"
    /\ \E rows \in ResultOrders(db), verbose \in BOOLEAN :
          procs' = [procs EXCEPT ![p] = introspect_step(model_schema, rows, verbose)]
    /\ UNCHANGED <<model_schema, db, calls, request, result, connection>>

\* the CREATE TABLE of invocation p
Create(p) ==
    /\ procs[p].pc = "create"
    /\ LET out == create_step(model_schema, procs[p], db)
       IN  /\ procs' = [procs EXCEPT ![p] = out.proc]
           /\ db' = out.db
    /\ UNCHANGED <<model_schema, calls, request, result, connection>>

\* the next ALTER TABLE ADD of invocation p
Alter(p) ==
    /\ procs[p].pc = "alter"
    /\ LET out == alter_step(model_schema, procs[p], db)
       IN  /\ procs' = [procs EXCEPT ![p] = out.proc]
           /\ db' = out.db
    /\ UNCHANGED <<model_schema, calls, request, result, connection>>

Step(p) == Introspect(p) \/ Create(p) \/ Alter(p)

NextConcurrent == \E p \in Invocations : Step(p)

SpecConcurrent == InitConcurrent /\ [][NextConcurrent]_vars

\* sync_table is a blocking sequence of calls: an invocation that has a call
\* left to make makes it
FairSpecConcurrent ==
    SpecConcurrent /\ \A p \in Invocations : WF_vars(Step(p))

-----------------------------------------------------------------------------
(* The connection state machine: connect, disconnect and get_session on the *)
(* one ConnectionManager instance of the module                            *)

MethodCall(fn, keyspace, fails_at) == [fn |-> fn, keyspace |-> keyspace, fails_at |-> fails_at]

MethodOutcome(raised, error, value) == [raised |-> raised, error |-> error, value |-> value]

InitConnection ==
    /\ model_schema = ProdutoOriginal
    /\ db = NoTable
    /\ calls = <<>>
    /\ request = MethodCall("none", NoKeyspace, "none")
    /\ result = MethodOutcome(FALSE, "", NoObject)
    /\ procs = NotRunning
    /\ connection = ConnectionManager_init

Connect ==
    /\ connection.created < MaxConnects
    /\ \E keyspace \in {NoKeyspace, "ks1", "ks2"}, fails_at \in ConnectSteps \cup {"none"} :
          LET out == connect(connection, keyspace, fails_at)
          IN  /\ fails_at \in {"create_keyspace", "set_keyspace"} => keyspace # NoKeyspace
              /\ connection' = out.manager
              /\ request' = MethodCall("connect", keyspace, fails_at)
              /\ result' = MethodOutcome(out.raised, out.error, out.value)
    /\ UNCHANGED <<model_schema, db, calls, procs>>

Disconnect ==
    /\ LET out == disconnect(connection)
       IN  /\ connection' = out.manager
           /\ request' = MethodCall("disconnect", NoKeyspace, "none")
           /\ result' = MethodOutcome(out.raised, out.error, out.value)
    /\ UNCHANGED <<model_schema, db, calls, procs>>

GetSession ==
    /\ LET out == get_session(connection)
       IN  /\ connection' = out.manager
           /\ request' = MethodCall("get_session", NoKeyspace, "none")
           /\ result' = MethodOutcome(out.raised, out.error, out.value)
    /\ UNCHANGED <<model_schema, db, calls, procs>>

NextConnection == Connect \/ Disconnect \/ GetSession

SpecConnection == InitConnection /\ [][NextConnection]_vars

-----------------------------------------------------------------------------
(* Properties of sync_table *)

\* the columns of the statements of one invocation, in the order attempted
StmtColumns(call) == [i \in DOMAIN call.stmts |-> call.stmts[i].stmt.column]

StmtOps(call) == {call.stmts[i].stmt.op : i \in DOMAIN call.stmts}

\* the declared fields the table lacked when the invocation began, in declared order
AddedInModel(call) ==
    SelectSeq(FieldNames(model_schema), LAMBDA n : n \notin ColumnNames(call.before))

IndexedFields == {f \in Range(model_schema.fields) : f.index}

\* C2: on an existing table, sync_table with auto_apply=True executes nothing
\* but ALTER TABLE ADD for the fields of added_in_model; every column of the
\* table stays, and type or primary-key mismatches trigger no statement.
C2_OnlyAddsOnExistingTable ==
    \A k \in DOMAIN calls :
        (calls[k].auto_apply /\ calls[k].before.exists) =>
            /\ \A i \in DOMAIN calls[k].stmts :
                   /\ calls[k].stmts[i].stmt.op = "ALTER TABLE ADD"
                   /\ calls[k].stmts[i].stmt.column \in Range(AddedInModel(calls[k]))
            /\ ColumnNames(calls[k].before) \subseteq ColumnNames(db)

\* C3: with the table present and auto_apply not requested, sync_table executes
\* no statement and leaves the live schema as it was.
C3_ReportOnlyExecutesNothing ==
    \A k \in DOMAIN calls :
        (~calls[k].auto_apply /\ calls[k].before.exists) =>
            /\ calls[k].stmts = <<>>
            /\ calls[k].after = calls[k].before

C5_CreateThenIndexes ==
    \A k \in DOMAIN calls :
        (~calls[k].before.exists /\ calls[k].after.exists) =>
            /\ calls[k].stmts[1].stmt.op = "CREATE TABLE IF NOT EXISTS"
            /\ Cardinality({i \in DOMAIN calls[k].stmts :
                   calls[k].stmts[i].stmt.op = "CREATE TABLE IF NOT EXISTS"}) = 1
            /\ {calls[k].stmts[i].stmt.column : i \in 2..Len(calls[k].stmts)}
                   = {f.name : f \in IndexedFields}
            /\ Len(calls[k].stmts) = 1 + Cardinality(IndexedFields)

\* C6 as stated: of two auto_apply invocations in sequence, the first of which
\* had its introspection answered and returned normally, the second performs
\* no ADD COLUMN.
C6_SecondSyncAddsNothing ==
    \A k \in DOMAIN calls :
        (/\ k > 1 /\ calls[k - 1].auto_apply /\ calls[k].auto_apply
         /\ calls[k - 1].introspection \in {"found", "none"}
         /\ ~calls[k - 1].raised) =>
            "ALTER TABLE ADD" \notin StmtOps(calls[k])

\* C6 amended: of two auto_apply invocations in sequence, the second attempts
\* ADD COLUMN only for declared fields that the table still lacks after the
\* first, so never for a column the first invocation found or added.
C6_SecondSyncAddsOnlyMissing ==
    \A k \in DOMAIN calls :
        (k > 1 /\ calls[k - 1].auto_apply /\ calls[k].auto_apply) =>
            \A i \in DOMAIN calls[k].stmts :
                calls[k].stmts[i].stmt.op = "ALTER TABLE ADD" =>
                    calls[k].stmts[i].stmt.column \notin ColumnNames(calls[k - 1].after)

\* the first invocation added a column and the second found nothing to add
C6_Witness ==
    \E k \in DOMAIN calls :
        /\ k > 1 /\ calls[k - 1].auto_apply /\ calls[k].auto_apply
        /\ \E i \in DOMAIN calls[k - 1].stmts :
               /\ calls[k - 1].stmts[i].stmt.op = "ALTER TABLE ADD"
               /\ calls[k - 1].stmts[i].ok
        /\ calls[k].introspection = "found"
        /\ calls[k].stmts = <<>>

\* the type the catalog holds for a column
LiveType(d, name) ==
    d.rows[CHOOSE i \in DOMAIN d.rows : d.rows[i].column_name = name].type

\* C7: for a field present in both schemas, a declared type equal to the live
\* column's type never registers as a type mismatch.
C7_EqualTypesNeverMismatch ==
    \A k \in DOMAIN calls :
        calls[k].introspection = "found" =>
            \A f \in calls[k].diff.type_mismatches :
                FieldOf(model_schema, f).type # LiveType(calls[k].before, f)

\* C17: an executor error during sync_table, other than a logged and skipped
\* ADD COLUMN failure, reaches the caller and ends the invocation: a failed
\* introspection raises with nothing executed, a failed CREATE TABLE raises
\* and is the last statement.
C17_ExecutorErrorsPropagate ==
    \A k \in DOMAIN calls :
        LET call == calls[k]
        IN  /\ call.introspection = "error" => (call.raised /\ call.stmts = <<>>)
            /\ \A i \in DOMAIN call.stmts :
                   (call.stmts[i].stmt.op = "CREATE TABLE IF NOT EXISTS"
                        /\ ~call.stmts[i].ok) =>
                       (call.raised /\ i = Len(call.stmts))

\* the key columns of one kind of a live table, by position
KeysByPosition(d, kind) ==
    LET keys == SelectSeq(d.rows, LAMBDA r : r.kind = kind)
    IN  [p \in 1..Len(keys) |->
            (CHOOSE i \in DOMAIN keys : keys[i].position = p - 1)]

\* partition_keys followed by clustering_keys of a live table
LivePrimaryKeys(d) ==
    RowNames([p \in 1..Len(KeysByPosition(d, "partition_key")) |->
                 SelectSeq(d.rows, LAMBDA r : r.kind = "partition_key")
                     [KeysByPosition(d, "partition_key")[p]]])
    \o RowNames([p \in 1..Len(KeysByPosition(d, "clustering")) |->
                    SelectSeq(d.rows, LAMBDA r : r.kind = "clustering")
                        [KeysByPosition(d, "clustering")[p]]])

\* C18: whatever the order in which the catalog rows arrive, the introspected
\* primary_keys is partition_keys followed by clustering_keys, so pk_mismatch
\* is reported iff that list differs between the declared and the live schema.
C18_PkMismatchIffKeyListsDiffer ==
    \A k \in DOMAIN calls :
        calls[k].introspection = "found" =>
            (calls[k].diff.pk_mismatch
                 <=> model_schema.primary_keys # LivePrimaryKeys(calls[k].before))

-----------------------------------------------------------------------------
(* Properties of the query builder *)

\* the field a filter key names: what stands before its first "__"
FieldNameOf(key) == SplitHead(key, "__")

\* the operator a filter key names: the word after its first "__", "exact"
\* when the key has no "__", "" when nothing follows the "__"
OperatorOf(key) ==
    IF "__" \notin Range(key) THEN "exact"
    ELSE LET i == FirstIndex(key, "__")
         IN  IF i < Len(key) /\ key[i + 1] # "__" THEN key[i + 1] ELSE ""

\* the positions of the '?' placeholders of a statement, in textual order
Placeholder(cql) ==
    LET at == {i \in DOMAIN cql : cql[i] = "?"}
    IN  [k \in 1..Cardinality(at) |->
            CHOOSE i \in at : Cardinality({j \in at : j < i}) = k - 1]

\* a filter key written 'field' or 'field__operator' with a known operator
WellFormedKey(key) == OperatorOf(key) \in Range(OperatorKeys)

\* C1: build_delete_cql is rejected iff the filter is empty or the field names
\* of its entries, written 'field' or 'field__operator', do not cover the
\* partition keys; otherwise it returns a statement.
C1_DeleteRejectedIffNotCovered ==
    (/\ request.fn = "build_delete_cql"
     /\ \A k \in Range(Keys(request.filters)) : WellFormedKey(k)) =>
        LET fields == {FieldNameOf(k) : k \in Range(Keys(request.filters))}
            partition == Range(Words(request.schema.partition_keys))
        IN  /\ result.raised <=>
                   (request.filters.items = <<>> \/ ~(partition \subseteq fields))
            /\ result.raised => result.cql = NoTokens

\* C8: build_update_cql raises iff update_data is empty or pk_filters is
\* empty, whatever the number of fields; otherwise it returns a statement.
C8_UpdateRejectedIffEmpty ==
    request.fn = "build_update_cql" =>
        /\ result.raised <=>
               (request.update_data.items = <<>> \/ request.filters.items = <<>>)
        /\ result.raised => result.error = "ValueError" /\ result.cql = NoTokens
        /\ ~result.raised => result.cql # NoTokens

\* an update with something to set and no primary-key filter, refused
C8_Witness ==
    /\ request.fn = "build_update_cql"
    /\ Len(request.update_data.items) = 2
    /\ request.filters.items = <<>>
    /\ result.raised

\* C9: an accepted build_update_cql gives UPDATE table SET f = ?, ... WHERE
\* pk = ? AND ...; its i-th placeholder follows the name of the i-th entry of
\* update_data followed by pk_filters, and the i-th parameter is that entry's
\* value.
C9_UpdateParamsFollowPlaceholders ==
    (request.fn = "build_update_cql" /\ ~result.raised) =>
        LET cql == result.cql
            pos == Placeholder(cql)
            nset == Len(request.update_data.items)
            bound == request.update_data.items \o request.filters.items
        IN  /\ SubSeq(cql, 1, 3) = <<"UPDATE", request.schema.table_name, "SET">>
            /\ Len(pos) = Len(bound)
            /\ Len(result.params) = Len(bound)
            /\ \A i \in DOMAIN bound :
                   /\ pos[i] = 3 + 4 * i - 1
                   /\ <<cql[pos[i] - 2]>> = bound[i].key
                   /\ cql[pos[i] - 1] = "="
                   /\ result.params[i] = bound[i].value
                   /\ i < nset => cql[pos[i] + 1] = ","
                   /\ i = nset => cql[pos[i] + 1] = "WHERE"
                   /\ (i > nset /\ i < Len(bound)) => cql[pos[i] + 1] = "AND"
            /\ Len(cql) = 3 + 4 * Len(bound) - 1

\* two fields set to different values under a two-column key
C9_Witness ==
    /\ request.fn = "build_update_cql"
    /\ ~result.raised
    /\ Len(request.update_data.items) = 2
    /\ Len(request.filters.items) = 2
    /\ result.params[1] # result.params[2]
    /\ result.params[2] # result.params[3]

\* the filter entries build_select_cql must refuse
UnsupportedOperator(entry) == OperatorOf(entry.key) \notin Range(OperatorKeys)

InOfNonCollection(entry) ==
    OperatorOf(entry.key) = "in" /\ entry.value.kind \notin {"list", "tuple", "set"}

\* C10: build_select_cql fails, returning no statement, iff some filter entry
\* has an operator outside {exact, gt, gte, lt, lte, in} or has 'in' with a
\* value that is no list, tuple or set; the first such entry decides the
\* error: a ValueError naming the valid operators, or a TypeError.
C10_SelectFailsIffBadEntry ==
    request.fn = "build_select_cql" =>
        LET items == request.filters.items
            bad == {i \in DOMAIN items :
                       UnsupportedOperator(items[i]) \/ InOfNonCollection(items[i])}
            first == CHOOSE i \in bad : \A j \in bad : i <= j
        IN  /\ result.raised <=> bad # {}
            /\ result.raised => result.cql = NoTokens
            /\ bad # {} =>
                   IF UnsupportedOperator(items[first])
                   THEN /\ result.error = "ValueError"
                        /\ result.message = "unsupported_operator"
                        /\ result.valid = <<"exact", "gt", "gte", "lt", "lte", "in">>
                   ELSE /\ result.error = "TypeError"
                        /\ result.message = "in_needs_list_tuple_or_set"

\* an accepted entry followed by 'in' with a string, refused with a TypeError
C10_Witness ==
    /\ request.fn = "build_select_cql"
    /\ Len(request.filters.items) = 2
    /\ OperatorOf(request.filters.items[1].key) = "gt"
    /\ OperatorOf(request.filters.items[2].key) = "in"
    /\ request.filters.items[2].value.kind = "str"
    /\ result.raised
    /\ result.error = "TypeError"

\* the parameters a filter entry contributes: one per element for 'in', else one
RECURSIVE ParamCount(_)
ParamCount(items) ==
    IF items = <<>> THEN 0
    ELSE (IF OperatorOf(Head(items).key) = "in" THEN Len(Head(items).value.items) ELSE 1)
             + ParamCount(Tail(items))

\* the tokens of a statement between WHERE and ORDER BY, LIMIT or ALLOW FILTERING
WhereTokens(cql) ==
    LET stop == {i \in DOMAIN cql : cql[i] \in {"ORDER", "LIMIT", "ALLOW"}}
        end == IF stop = {} THEN Len(cql)
               ELSE (CHOOSE i \in stop : \A j \in stop : i <= j) - 1
    IN  IF "WHERE" \in Range(cql) THEN SubSeq(cql, FirstIndex(cql, "WHERE") + 1, end)
        ELSE <<>>

\* the clauses of the WHERE part, as the text between the ANDs
WhereClauses(cql) == IF WhereTokens(cql) = <<>> THEN <<>> ELSE Split(WhereTokens(cql), "AND")

\* C11: in an accepted build_select_cql, an 'in' entry with a collection of n
\* elements gives a group IN ( ... ) holding exactly n placeholders and n
\* parameters, the elements one by one in iteration order, at the entry's
\* place in the parameter list.
C11_InGroupOnePlaceholderPerElement ==
    (request.fn = "build_select_cql" /\ ~result.raised) =>
        LET items == request.filters.items
            clauses == WhereClauses(result.cql)
            limited == IF "LIMIT" \in Range(result.cql) THEN 1 ELSE 0
        IN  /\ Len(result.params) = ParamCount(items) + limited
            /\ \A i \in DOMAIN items :
                   OperatorOf(items[i].key) = "in" =>
                       LET n == Len(items[i].value.items)
                           off == ParamCount(SubSeq(items, 1, i - 1))
                           group == SubSeq(clauses[i], 4, Len(clauses[i]) - 1)
                       IN  /\ SubSeq(clauses[i], 2, 3) = <<"IN", "(">>
                           /\ Last(clauses[i]) = ")"
                           /\ group = Placeholders(n)
                           /\ Cardinality({j \in DOMAIN group : group[j] = "?"}) = n
                           /\ SubSeq(result.params, off + 1, off + n)
                                  = [j \in 1..n |-> IntV(items[i].value.items[j])]

\* a comparison followed by 'in' with a list of two elements
C11_Witness ==
    /\ request.fn = "build_select_cql"
    /\ ~result.raised
    /\ Len(request.filters.items) = 2
    /\ OperatorOf(request.filters.items[1].key) = "gt"
    /\ OperatorOf(request.filters.items[2].key) = "in"
    /\ request.filters.items[2].value = ListV(<<1, 2>>)
    /\ Len(result.params) = 3

\* the CQL operator of a filter operator
CqlOperator(op) ==
    CASE op = "exact" -> "="
      [] op = "gt" -> ">"
      [] op = "gte" -> ">="
      [] op = "lt" -> "<"
      [] op = "lte" -> "<="
      [] op = "in" -> "IN"

\* the parameters of a filter in the order of its entries
RECURSIVE ParamsInOrder(_)
ParamsInOrder(items) ==
    IF items = <<>> THEN <<>>
    ELSE (IF OperatorOf(Head(items).key) = "in"
          THEN [j \in DOMAIN Head(items).value.items |-> IntV(Head(items).value.items[j])]
          ELSE <<Head(items).value>>) \o ParamsInOrder(Tail(items))

EndsWithAllowFiltering(cql) ==
    Len(cql) >= 2 /\ SubSeq(cql, Len(cql) - 1, Len(cql)) = <<"ALLOW", "FILTERING">>

\* C12: an accepted build_select_cql emits one clause per filter entry, in the
\* mapping's insertion order and joined by AND, binds the parameters in that
\* order, and ends with ALLOW FILTERING iff the filter is non-empty.
C12_ClausesInInsertionOrder ==
    (request.fn = "build_select_cql" /\ ~result.raised) =>
        LET items == request.filters.items
            clauses == WhereClauses(result.cql)
        IN  /\ Len(clauses) = Len(items)
            /\ \A i \in DOMAIN items :
                   /\ <<clauses[i][1]>> = FieldNameOf(items[i].key)
                   /\ clauses[i][2] = CqlOperator(OperatorOf(items[i].key))
                   /\ OperatorOf(items[i].key) # "in" => Len(clauses[i]) = 3 /\ clauses[i][3] = "?"
            /\ SubSeq(result.params, 1, ParamCount(items)) = ParamsInOrder(items)
            /\ ("WHERE" \in Range(result.cql)) <=> (items # <<>>)
            /\ EndsWithAllowFiltering(result.cql) <=> (items # <<>>)

\* the spec's example: an equality then a comparison, with a limit before the suffix
C12_Witness ==
    /\ request.fn = "build_select_cql"
    /\ ~result.raised
    /\ Len(request.filters.items) = 2
    /\ OperatorOf(request.filters.items[1].key) = "exact"
    /\ OperatorOf(request.filters.items[2].key) = "gt"
    /\ request.filters.items[1].value # request.filters.items[2].value
    /\ "LIMIT" \in Range(result.cql)
    /\ EndsWithAllowFiltering(result.cql)

\* C13: whenever a limit other than None is supplied, an accepted
\* build_select_cql contains LIMIT ? after the WHERE and ORDER BY clauses and
\* binds the limit as the last parameter.
C13_SuppliedLimitGivesLimitClause ==
    (request.fn = "build_select_cql" /\ ~result.raised /\ request.limit.kind # "NoneType") =>
        LET cql == result.cql
            at == {i \in DOMAIN cql : cql[i] = "LIMIT"}
        IN  /\ Cardinality(at) = 1
            /\ \A i \in at :
                   /\ i < Len(cql) /\ cql[i + 1] = "?"
                   /\ \A j \in DOMAIN cql : cql[j] \in {"WHERE", "ORDER", "BY"} => j < i
            /\ result.params # <<>>
            /\ Last(result.params) = request.limit

\* C14: build_count_cql treats a filter as build_select_cql does without
\* columns, ordering and limit: the same error, or the same statement but for
\* the projection COUNT(*) in the place of *, and the same parameters.
C14_CountHandlesFiltersAsSelect ==
    request.fn = "build_count_cql" =>
        LET select == build_select_cql(request.schema, <<>>, request.filters, NoneV, <<>>)
        IN  /\ result.raised = select.raised
            /\ result.raised => result = select
            /\ ~result.raised =>
                   /\ result.params = select.params
                   /\ result.cql[1] = "SELECT" /\ select.cql[1] = "SELECT"
                   /\ result.cql[2] = "COUNT(*)" /\ select.cql[2] = "*"
                   /\ Tail(Tail(result.cql)) = Tail(Tail(select.cql))
                   /\ WhereTokens(result.cql) = WhereTokens(select.cql)
                   /\ EndsWithAllowFiltering(result.cql) = EndsWithAllowFiltering(select.cql)

\* a count over a comparison and an 'in' of two elements
C14_Witness ==
    /\ request.fn = "build_count_cql"
    /\ ~result.raised
    /\ Len(request.filters.items) = 2
    /\ \E i \in 1..2 : OperatorOf(request.filters.items[i].key) = "in"
                          /\ Len(request.filters.items[i].value.items) = 2
    /\ Len(result.params) = 3
    /\ EndsWithAllowFiltering(result.cql)

\* the SET clause of an UPDATE statement
SetTokens(cql) == SubSeq(cql, FirstIndex(cql, "SET") + 1, FirstIndex(cql, "WHERE") - 1)

\* C15: build_collection_update_cql raises iff neither add nor remove is
\* non-empty; a returned statement sets field = field + ? or field = field - ?
\* (or both), each bound to the whole collection as one parameter, before the
\* primary-key parameters.
C15_CollectionUpdateRejectedIffNothingToDo ==
    (request.fn = "build_collection_update_cql" /\ request.filters.items # <<>>) =>
        LET f == request.field_name
            adds == NonEmpty(request.add)
            removes == NonEmpty(request.remove)
            plus == <<f, "=", f, "+", "?">>
            minus == <<f, "=", f, "-", "?">>
        IN  /\ result.raised <=> (~adds /\ ~removes)
            /\ ~result.raised =>
                   /\ SetTokens(result.cql) \in {plus, minus, plus \o <<",">> \o minus}
                   /\ result.params =
                          (IF adds THEN <<ListV(request.add.items)>> ELSE <<>>)
                              \o (IF removes THEN <<ListV(request.remove.items)>> ELSE <<>>)
                              \o Values(request.filters)

\* the PRIMARY KEY clause of a CREATE TABLE statement given as tokens
PrimaryKeyClause(cql) == SubSeq(cql, FirstIndex(cql, "PRIMARY"), Len(cql) - 1)

\* a PRIMARY KEY clause that denotes the declared keys: several partition keys
\* in their own parentheses, a single key without nesting
DenotesDeclaredKeys(pk_def, schema) ==
    /\ ParsePrimaryKey(pk_def).partition = schema.partition_keys
    /\ ParsePrimaryKey(pk_def).clustering = schema.clustering_keys
    /\ Len(schema.partition_keys) > 1 => SubSeq(pk_def, 3, 4) = <<"(", "(">>
    /\ Len(schema.primary_keys) = 1 =>
           pk_def = <<"PRIMARY", "KEY", "(", schema.primary_keys[1], ")">>

\* C16: the PRIMARY KEY clause of the CREATE TABLE that either builder
\* (query_builder, schema_sync) emits for a schema denotes exactly its
\* partition keys as the partition key and its clustering keys as clustering
\* columns.
C16_PrimaryKeyClauseDenotesDeclaredKeys ==
    (request.fn = "build_create_table_cql" /\ ~result.raised) =>
        /\ DenotesDeclaredKeys(PrimaryKeyClause(result.cql), request.schema)
        /\ DenotesDeclaredKeys(
               build_create_table_cql(request.schema.table_name, request.schema).pk_def,
               request.schema)

\* what a placeholder stands for: the name written before it, the tokens that
\* may stand right before it, and the value it is to be bound to
Slot(lead, prev, value) == [lead |-> lead, prev |-> prev, value |-> value]

\* the placeholders of the entries of a filter handled with operators
RECURSIVE FilterSlots(_)
FilterSlots(items) ==
    IF items = <<>> THEN <<>>
    ELSE LET key == Head(items).key
             value == Head(items).value
             lead == Last(FieldNameOf(key))
         IN  (IF OperatorOf(key) = "in"
              THEN [j \in DOMAIN value.items |-> Slot(lead, {"(", ","}, IntV(value.items[j]))]
              ELSE <<Slot(lead, {CqlOperator(OperatorOf(key))}, value)>>)
                 \o FilterSlots(Tail(items))

\* the placeholders of the entries of a mapping written 'key = ?'
EqualitySlots(mapping) ==
    [i \in DOMAIN mapping.items |->
        Slot(Last(mapping.items[i].key), {"="}, mapping.items[i].value)]

\* the placeholders a call asks for, in the order of its statement
Slots ==
    CASE request.fn = "build_select_cql" ->
             FilterSlots(request.filters.items)
                 \o (IF "LIMIT" \in Range(result.cql)
                     THEN <<Slot("LIMIT", {"LIMIT"}, request.limit)>> ELSE <<>>)
      [] request.fn = "build_count_cql" -> FilterSlots(request.filters.items)
      [] request.fn = "build_delete_cql" -> EqualitySlots(request.filters)
      [] request.fn = "build_update_cql" ->
             EqualitySlots(request.update_data) \o EqualitySlots(request.filters)
      [] request.fn = "build_collection_update_cql" ->
             (IF request.add.kind # "NoneType" /\ request.add.items # <<>>
              THEN <<Slot(request.field_name, {"+"}, ListV(request.add.items))>> ELSE <<>>)
                 \o (IF request.remove.kind # "NoneType" /\ request.remove.items # <<>>
                     THEN <<Slot(request.field_name, {"-"}, ListV(request.remove.items))>>
                     ELSE <<>>)
                 \o EqualitySlots(request.filters)
      [] OTHER -> <<>>

\* the name a placeholder belongs to: the nearest token before it that is
\* neither an operator nor punctuation
LeadOf(cql, p) ==
    LET names == {i \in 1..(p - 1) :
                     cql[i] \notin {"?", ",", "(", ")", "IN", "=", ">", ">=", "<", "<=",
                                    "+", "-"}}
    IN  cql[CHOOSE i \in names : \A j \in names : j <= i]

StatementBuilders ==
    {"build_select_cql", "build_count_cql", "build_update_cql", "build_delete_cql",
     "build_collection_update_cql"}

\* C29: every statement returned by build_select_cql, build_count_cql,
\* build_update_cql, build_delete_cql and build_collection_update_cql has as
\* many '?' placeholders as parameters, and the i-th placeholder in textual
\* order stands where the i-th parameter's value is asked for.
C29_PlaceholdersMatchParams ==
    (request.fn \in StatementBuilders /\ ~result.raised) =>
        LET at == Placeholder(result.cql)
        IN  /\ Len(at) = Len(result.params)
            /\ Len(at) = Len(Slots)
            /\ \A i \in DOMAIN at :
                   /\ result.params[i] = Slots[i].value
                   /\ LeadOf(result.cql, at[i]) = Slots[i].lead
                   /\ result.cql[at[i] - 1] \in Slots[i].prev

\* a collection update adding and removing elements under a key of two columns
C29_Witness ==
    /\ request.fn = "build_collection_update_cql"
    /\ ~result.raised
    /\ request.add = ListV(<<1, 2>>)
    /\ request.remove = SetV(<<3>>)
    /\ Len(request.filters.items) = 2
    /\ request.filters.items[1].value # request.filters.items[2].value
    /\ Len(Placeholder(result.cql)) = 4

-----------------------------------------------------------------------------
(* Properties of the fields *)

\* the field objects a state holds
FieldsHeld == Range(request.field) \cup Range(result.field)

EmptyValue(cls) ==
    CASE cls = "List" -> ListV(<<>>)
      [] cls = "Set" -> SetV(<<>>)
      [] cls = "Map" -> PyDict(<<>>)
      [] OTHER -> NoneV

\* C20: to_python(None) is None for every scalar field and the empty list,
\* set or dict for a List, Set or Map; so an instance built from a row that
\* lacks the column of a field is built without failure and holds None or the
\* empty collection for that field.
C20_AbsentValueGivesNoneOrEmpty ==
    /\ (request.fn = "to_python" /\ request.value = NoneV) =>
           (~result.raised /\ result.value = EmptyValue(request.cls))
    /\ (/\ request.fn = "_map_row_to_instance"
        /\ "campo" \notin {request.row_dict.items[i].key : i \in DOMAIN request.row_dict.items}) =>
           /\ ~result.raised
           /\ Get([items |-> result.data], "campo") = EmptyValue(request.cls)

\* the scalar field classes
ScalarClasses == FieldClasses \ CollectionClasses

\* a == b between Python values: numbers compare by what they count, True as 1
PyNumber(value) ==
    IF value.kind = "bool" THEN (IF value.items[1] THEN 1 ELSE 0) ELSE value.items[1]

PyEquals(a, b) ==
    IF a.kind \in {"bool", "int", "float"} /\ b.kind \in {"bool", "int", "float"}
    THEN PyNumber(a) = PyNumber(b)
    ELSE a.kind = b.kind /\ a = b

\* C21: for every scalar field and every value x of the field's local type,
\* to_python(to_cql(x)) raises nothing and returns a value equal to x.
C21_RoundTripReturnsValue ==
    (/\ request.fn = "round_trip"
     /\ request.cls \in ScalarClasses
     /\ request.value.kind # "NoneType"
     /\ IsInstance(request.value, python_type(request.cls))) =>
        (~result.raised /\ PyEquals(result.value, request.value))

\* C22: to_cql raises whenever the value cannot be converted to the field's
\* type: a scalar that is not of the field's local type and that to_python
\* refuses, or a List, Set or Map holding such an element, key or value.
ScalarCoercible(field, value) ==
    \/ value.kind = "NoneType"
    \/ IsInstance(value, python_type(field.cls))
    \/ ~ScalarToPython(field, value).raised

Coercible(field, value) ==
    CASE field.cls \in {"List", "Set"} ->
             \/ value.kind = "NoneType"
             \/ /\ Iterable(value)
                /\ \A item \in Range(Iterate(value)) : ScalarCoercible(field.inner[1], item)
      [] field.cls = "Map" ->
             \/ value.kind = "NoneType"
             \/ /\ value.kind = "dict"
                /\ \A i \in DOMAIN value.items :
                       /\ ScalarCoercible(field.inner[1], value.items[i].key)
                       /\ ScalarCoercible(field.inner[2], value.items[i].value)
      [] OTHER -> ScalarCoercible(field, value)

C22_ToCqlFailsOnUncoercible ==
    (/\ request.fn = "to_cql"
     /\ ~Coercible(request.field[1], request.value)) => result.raised

\* an element of the value given to a List or Set, or a key or value of the
\* dict given to a Map, that the inner field's to_python refuses
HasFailingItem(field, value) ==
    CASE field.cls \in {"List", "Set"} ->
             /\ Iterable(value)
             /\ \E item \in Range(Iterate(value)) :
                    ScalarToPython(field.inner[1], item).raised
      [] field.cls = "Map" ->
             /\ value.kind = "dict"
             /\ \E i \in DOMAIN value.items :
                    \/ ScalarToPython(field.inner[1], value.items[i].key).raised
                    \/ ScalarToPython(field.inner[2], value.items[i].value).raised
      [] OTHER -> FALSE

\* C23: to_python of a List, Set or Map given a value with an element, key or
\* value the inner field refuses raises TypeError and returns no collection,
\* and so does the construction of a model given that value for the field.
C23_FailingItemRaisesTypeError ==
    /\ (/\ request.fn = "to_python"
        /\ HasFailingItem(request.field[1], request.value)) =>
           (result.raised /\ result.error = "TypeError" /\ result.value = NoneV)
    /\ (/\ request.fn = "Model"
        /\ HasFailingItem(request.field[1], Get(request.row_dict, "campo"))) =>
           (result.raised /\ result.error = "TypeError" /\ result.data = <<>>)

\* a value that is not of the field's local type and spells no value of it
NoRepresentation(cls, value) ==
    CASE cls \in {"Integer", "Float"} -> value.kind = "str" /\ ~Numeric(value.items[1])
      [] cls = "UUID" -> value.kind = "str" /\ ~UuidText(value.items[1])
      [] cls = "Text" -> value.kind \notin {"str", "NoneType"}
      [] cls = "Boolean" -> value.kind = "str" /\ value.items[1] \notin {"True", "False"}
      [] OTHER -> FALSE

\* C24: a model given, for a scalar field, a value that is not of the field's
\* local type and has no representation in it (a text that is no number for
\* Integer or Float, a malformed text for UUID, a value that is no text for
\* Text, a text that is no boolean for Boolean) raises TypeError and no
\* instance is produced.
C24_UnconvertibleValueRaisesTypeError ==
    (/\ request.fn = "Model"
     /\ NoRepresentation(request.cls, Get(request.row_dict, "campo"))) =>
        (result.raised /\ result.error = "TypeError" /\ result.data = <<>>)

\* C25: UUID(primary_key=True, ...) without 'default' is constructed whatever
\* the other options and holds the generator as its default; with 'default'
\* given, None included, a constructed UUID field holds the default given.
C25_UuidPrimaryKeyGetsGenerator ==
    (request.fn = "Field" /\ request.cls = "UUID" /\ request.kwargs.primary_key) =>
        IF request.kwargs.has_default
        THEN \A f \in Range(result.field) : f.default = request.kwargs.default
        ELSE /\ ~result.raised
             /\ \A f \in Range(result.field) : f.default = uuid4

\* C26: for every combination of flags, a constructed field has partition_key
\* true iff partition_key was given, or primary_key was given and
\* clustering_key was not.
C26_PartitionKeyUnlessClustering ==
    (request.fn = "Field" /\ ~result.raised) =>
        (result.field[1].partition_key <=>
            (\/ request.kwargs.partition_key
             \/ (request.kwargs.primary_key /\ ~request.kwargs.clustering_key)))

\* C27: constructing a model without a value, or with None, for a field
\* declared required=True raises a validation error and produces no instance.
C27_MissingRequiredValueRejected ==
    (/\ request.fn = "Model"
     /\ request.field[1].required
     /\ Get(request.row_dict, "campo") = NoneV) =>
        (result.raised /\ result.error = "ValidationError" /\ result.data = <<>>)

-----------------------------------------------------------------------------
(* Properties of concurrent synchronisation *)

AllDone == \A p \in Invocations : procs[p].pc = "done"

\* how many columns of the table bear a name
Occurrences(d, name) == Cardinality({i \in DOMAIN d.rows : d.rows[i].column_name = name})

\* the invocations that sent ALTER TABLE ADD for a column, by what they logged
Adders(name, event) ==
    {p \in Invocations : Log(IF event = "executing" THEN "info" ELSE "error", event, name)
                             \in Range(procs[p].logs)}

NoneRaisedColumnsOnce ==
    /\ \A p \in Invocations : ~procs[p].raised
    /\ AllDone => \A name \in Range(FieldNames(model_schema)) : Occurrences(db, name) = 1

\* C28: two sync_table(auto_apply=True) invocations for one model, their
\* catalog queries and statements interleaved in any order and the executor
\* refusing to add a column that exists, never raise, both come to their end,
\* and then every declared column, those the table lacked included, is in
\* the table exactly once.
C28_BothTerminateColumnOnce == []NoneRaisedColumnsOnce /\ <>AllDone

\* both invocations found the column missing: one added it, the other was refused
C28_Witness ==
    /\ AllDone
    /\ \E name \in Range(FieldNames(model_schema)) :
           /\ Adders(name, "executing") # {}
           /\ Adders(name, "add_failed") # {}
           /\ Occurrences(db, name) = 1

-----------------------------------------------------------------------------
(* Properties of the connection *)

====
